---- MODULE Spec2Model ----
(***************************************************************************)
(* A model of the antigravity-claude-proxy core: the account router        *)
(* (AccountManager over the upstream_accounts table), the request path     *)
(* (Orchestrator.handle, CloudCodeOutput.sendMessage / sendMessageStream),  *)
(* the request converter (convertAnthropicToGoogle), the response          *)
(* converter (convertGoogleToAnthropic) and the streaming reassembler      *)
(* (CloudCodeOutput.streamSSEResponse).                                    *)
(*                                                                         *)
(* Each part has its own specification over the same variables; the        *)
(* variables of the parts a specification does not exercise stay at their  *)
(* idle values.                                                            *)
(***************************************************************************)
EXTENDS Integers, Sequences, FiniteSets, TLC

VARIABLES
    now,        \* Date.now(), in ms
    accounts,   \* the user's rows of upstream_accounts, in rowid order
    req,        \* the request in flight: its position in Orchestrator.handle and
                \* sendMessage / sendMessageStream, and what the client has received
    lastPick,   \* history: the last pickStickyAccount call (the rows and time it
                \* read, its result, the rows it left) and the result and rows
                \* of the call before it
    conv,       \* the request converter: the Anthropic request being put
                \* together, and the contents convertAnthropicToGoogle made of it
    sse,        \* the streaming reassembler: the locals of streamSSEResponse
                \* and the events it has yielded
    resp,       \* the response converter: the Google response being put
                \* together, and what convertGoogleToAnthropic made of it
    http,       \* the input adapter: the position of handleRequest /
                \* sendStreamResponse and the HTTP response written so far
    pipe,       \* the assistant-message pipeline: the content array being put
                \* together, and what the pipeline functions made of it
    tool,       \* the tool-schema sanitizer: the input schema being put
                \* together, and what sanitizeSchema made of it
    agg,        \* the model aggregator: the model group stored for the
                \* requested name, and what resolve returned
    trip,       \* the round trip of a message through convertContentToParts
                \* and convertGoogleToAnthropic
    session,    \* the session id: two requests and the ids deriveSessionId
                \* gave them
    config,     \* the generationConfig convertAnthropicToGoogle builds
    tok,        \* the token cache entry of one account, and what
                \* getTokenForAccount did
    rd,         \* the read loop of streamSSEResponse: the upstream text, how far
                \* it was read, the buffer, and the reassembler's locals
    mem,        \* the objects of a request and of its conversion, by reference
    race        \* concurrent requests on one account table: what each of them
                \* holds, and what was last written to each row

vars ==
    <<now, accounts, req, lastPick, conv, sse, resp, http, pipe, tool, agg, trip, session, config,
      tok, rd, mem, race>>

(***************************************************************************)
(* Program constants                                                       *)
(***************************************************************************)
MAX_WAIT_BEFORE_ERROR_MS == 120000
DEFAULT_COOLDOWN_MS == 60000
MAX_RETRIES == 5
MIN_SIGNATURE_LENGTH == 50
DEFAULT_THINKING_BUDGET == 16000
CLAUDE_THINKING_MAX_OUTPUT_TOKENS == 64000

(***************************************************************************)
(* Bounds of the model                                                     *)
(***************************************************************************)
MaxAccounts == 2        \* rows of the user in upstream_accounts
MaxMessages == 2        \* messages of a request
MaxBlocks == 3          \* content blocks of a request, over all its messages
MaxFrames == 2          \* data frames of an upstream stream
MaxParts == 3           \* parts of an upstream stream or response, over all frames

\* SQL NULL / JS null of an INTEGER column. Date.now() is positive, and the code
\* reads both columns by truthiness (last_used || 0, rate_limit_reset_time &&).
NULL == 0
\* Date.now() when the model starts.
StartMs == {100000}
\* The retry-after header of a 429, where it has one, in ms: Retry-After: 0,
\* 10 and 150.
ResetHintMs == {0, 10000, 150000}

Min(a, b) == IF a <= b THEN a ELSE b
Max(a, b) == IF a >= b THEN a ELSE b

(***************************************************************************)
(* The upstream_accounts table (db/proxy-db.js, services/auth.js)          *)
(***************************************************************************)
NewAccount(i) ==
    [id |-> i, last_used |-> NULL, is_rate_limited |-> FALSE,
     rate_limit_reset_time |-> NULL, is_invalid |-> FALSE]

\* UPDATE upstream_accounts SET is_rate_limited = 0, rate_limit_reset_time = NULL
\* WHERE is_rate_limited = 1 AND rate_limit_reset_time <= now
clearExpiredRateLimits(accts, t) ==
    [i \in DOMAIN accts |->
        IF accts[i].is_rate_limited /\ accts[i].rate_limit_reset_time # NULL
           /\ accts[i].rate_limit_reset_time <= t
        THEN [accts[i] EXCEPT !.is_rate_limited = FALSE, !.rate_limit_reset_time = NULL]
        ELSE accts[i]]

(***************************************************************************)
(* AccountManager (services/auth.js)                                       *)
(***************************************************************************)
NotInvalid(acc) == ~acc.is_invalid
Available(acc) == ~acc.is_rate_limited /\ ~acc.is_invalid

\* accounts.length === 0 || accounts.every(acc => acc.is_rate_limited)
isAllRateLimited(accts) ==
    \A i \in DOMAIN accts : accts[i].is_rate_limited

\* The comparator of accounts.sort: negative when a comes first.
LastUsedAscending(a, b) == a.last_used - b.last_used
LastUsedDescending(a, b) == b.last_used - a.last_used

\* Array.prototype.sort is stable: the rows ordered by the comparator, ties in
\* the order of s. SortRank(s, i) is the position of s[i] in the result.
SortRank(s, i) ==
    1 + Cardinality({j \in DOMAIN s :
            \/ LastUsedDescending(s[j], s[i]) < 0
            \/ LastUsedDescending(s[j], s[i]) = 0 /\ j < i})

SortAccounts(accts) ==
    [k \in DOMAIN accts |-> accts[CHOOSE i \in DOMAIN accts : SortRank(accts, i) = k]]

\* updateAccount(account.id, { last_used: Date.now() })
touchAccount(accts, id, t) == [accts EXCEPT ![id].last_used = t]

\* accounts.find(acc => !acc.is_rate_limited && !acc.is_invalid): the id, or 0
FirstAvailable(sorted) ==
    IF \E k \in DOMAIN sorted : Available(sorted[k])
    THEN sorted[CHOOSE k \in DOMAIN sorted :
                    /\ Available(sorted[k])
                    /\ \A j \in 1..(k - 1) : ~Available(sorted[j])].id
    ELSE 0

\* Case 2 of pickStickyAccount: the sticky account frees up soon enough to wait.
WaitAlways(waitMs) == waitMs > 0
ShouldWait(waitMs) == waitMs > 0 /\ waitMs <= MAX_WAIT_BEFORE_ERROR_MS

\* pickStickyAccount(userId): [account: the id returned or 0 for null, waitMs,
\* accounts: the table after the call].
pickStickyAccount(accts0, t) ==
    LET accts == clearExpiredRateLimits(accts0, t)
        sorted == SortAccounts(accts)
    IN  IF Len(accts) = 0
        THEN [account |-> 0, waitMs |-> 0, accounts |-> accts]
        ELSE LET currentSticky == sorted[1]
                 waitMs == currentSticky.rate_limit_reset_time - t
                 nextAccount == FirstAvailable(sorted)
             IN  IF Available(currentSticky)
                 THEN [account |-> currentSticky.id, waitMs |-> 0,
                       accounts |-> touchAccount(accts, currentSticky.id, t)]
                 ELSE IF /\ currentSticky.is_rate_limited
                         /\ currentSticky.rate_limit_reset_time # NULL
                         /\ ShouldWait(waitMs)
                 THEN [account |-> 0, waitMs |-> waitMs, accounts |-> accts]
                 ELSE IF nextAccount # 0
                 THEN [account |-> nextAccount, waitMs |-> 0,
                       accounts |-> touchAccount(accts, nextAccount, t)]
                 ELSE [account |-> 0, waitMs |-> 0, accounts |-> accts]

\* markRateLimited(account, resetMs): resetMs || DEFAULT_COOLDOWN_MS
markRateLimitedFlagOnly(accts, id, resetMs, t) ==
    [accts EXCEPT ![id].is_rate_limited = TRUE]
markRateLimited(accts, id, resetMs, t) ==
    LET cooldownMs == IF resetMs # 0 THEN resetMs ELSE DEFAULT_COOLDOWN_MS
    IN  [accts EXCEPT ![id].is_rate_limited = TRUE,
                      ![id].rate_limit_reset_time = t + cooldownMs]

\* markInvalid(account, reason)
markInvalid(accts, id) == [accts EXCEPT ![id].is_invalid = TRUE]

\* The rate-limit and invalid status of every row.
StatusOf(accts) ==
    [i \in DOMAIN accts |->
        <<accts[i].is_rate_limited, accts[i].rate_limit_reset_time, accts[i].is_invalid>>]

(***************************************************************************)
(* Content blocks and parts. A JS object is a record with every field the  *)
(* converter reads; a field the object does not have is UNDEFINED (NoSig   *)
(* for a signature). A signature string is known by its identity and its   *)
(* length.                                                                 *)
(***************************************************************************)
UNDEFINED == "undefined"
NoSig == [id |-> UNDEFINED, len |-> 0]

Item(type, text, thinking, signature, thought, thoughtSignature, functionCall, extra) ==
    [type |-> type, text |-> text, thinking |-> thinking, signature |-> signature,
     thought |-> thought, thoughtSignature |-> thoughtSignature,
     functionCall |-> functionCall, cache_control |-> extra]

\* Anthropic content blocks
TextBlock(text) ==
    Item("text", text, UNDEFINED, NoSig, FALSE, NoSig, UNDEFINED, FALSE)
ToolUseBlock(name) ==
    Item("tool_use", UNDEFINED, UNDEFINED, NoSig, FALSE, NoSig, name, FALSE)
ThinkingBlock(thinking, signature, extra) ==
    Item("thinking", UNDEFINED, thinking, signature, FALSE, NoSig, UNDEFINED, extra)
RedactedThinkingBlock ==
    Item("redacted_thinking", UNDEFINED, UNDEFINED, NoSig, FALSE, NoSig, UNDEFINED, FALSE)

\* Google parts
TextPart(text) ==
    Item(UNDEFINED, text, UNDEFINED, NoSig, FALSE, NoSig, UNDEFINED, FALSE)
ThoughtPart(text, thoughtSignature) ==
    Item(UNDEFINED, text, UNDEFINED, NoSig, TRUE, thoughtSignature, UNDEFINED, FALSE)
FunctionCallPart(name) ==
    Item(UNDEFINED, UNDEFINED, UNDEFINED, NoSig, FALSE, NoSig, name, FALSE)

\* String.prototype.trim on the texts of the model
Trim(text) == IF text = " " THEN "" ELSE text

(***************************************************************************)
(* Errors. Every error the request path throws is a plain Error: it has a  *)
(* message and no status. mark: the message holds one of the markers       *)
(* ModelAggregator.isRateLimitError looks for (RESOURCE_EXHAUSTED,         *)
(* QUOTA_EXHAUSTED, rate_limit_exceeded, 429).                             *)
(***************************************************************************)
Err(kind, mark) == [kind |-> kind, mark |-> mark, status |-> 0]
NoError == Err("none", FALSE)
\* 'Max retries exceeded'
ErrMaxRetries == Err("max_retries", FALSE)
\* 'No accounts available for this user'
ErrNoAccounts == Err("no_accounts", FALSE)
\* 'RESOURCE_EXHAUSTED: Rate limited. Quota will reset after ...'
ErrResourceExhausted == Err("resource_exhausted", TRUE)
\* `Rate limited: ${errorText}`
ErrRateLimited(mark) == Err("rate_limited", mark)
\* `API error ${status}: ${errorText}`
ErrApi(mark) == Err("api", mark)
\* `AUTH_INVALID: ${email}: ${message}`
ErrAuthInvalid == Err("auth_invalid", FALSE)
\* fetch or the body reader rejected
ErrNetwork == Err("network", FALSE)

\* ModelAggregator.isRateLimitError(error)
AggregatorIsRateLimitError(e) == e.status = 429 \/ e.mark

\* utils/errors.js isRateLimitError(error): the errors sendMessage raises for a
\* 429 on every endpoint, and any message with a rate-limit marker.
isRateLimitError(e) == e.kind \in {"rate_limited", "resource_exhausted"} \/ e.mark

\* utils/errors.js isAuthError(error): the AUTH_INVALID error of getTokenForAccount.
isAuthError(e) == e.kind = "auth_invalid"

(***************************************************************************)
(* The request converter (format converter: convertAnthropicToGoogle)      *)
(***************************************************************************)
isThinkingPart(part) ==
    \/ part.type = "thinking"
    \/ part.type = "redacted_thinking"
    \/ part.thinking # UNDEFINED
    \/ part.thought = TRUE

\* typeof signature === 'string' && signature.length >= MIN_SIGNATURE_LENGTH
hasValidSignature(part) ==
    LET signature == IF part.thought = TRUE THEN part.thoughtSignature ELSE part.signature
    IN  signature # NoSig /\ signature.len >= MIN_SIGNATURE_LENGTH

\* Keeps the allowed fields only.
sanitizeThinkingPart(part) ==
    IF part.thought = TRUE
    THEN Item(UNDEFINED, part.text, UNDEFINED, NoSig, TRUE, part.thoughtSignature,
              UNDEFINED, FALSE)
    ELSE IF part.type = "thinking" \/ part.thinking # UNDEFINED
    THEN Item("thinking", UNDEFINED, part.thinking, part.signature, FALSE, NoSig,
              UNDEFINED, FALSE)
    ELSE part

RECURSIVE filterContentArray(_)
filterContentArray(contentArray) ==
    IF contentArray = <<>> THEN <<>>
    ELSE LET item == Head(contentArray)
             rest == filterContentArray(Tail(contentArray))
         IN  IF ~isThinkingPart(item) THEN <<item>> \o rest
             ELSE IF hasValidSignature(item) THEN <<sanitizeThinkingPart(item)>> \o rest
             ELSE rest

filterUnsignedThinkingBlocks(contents) ==
    [i \in DOMAIN contents |->
        [contents[i] EXCEPT !.parts = filterContentArray(contents[i].parts)]]

\* The blocks removeTrailingThinkingBlocks takes off the end of the content.
StripsEveryThinking(block) == isThinkingPart(block)
StripsFromEnd(block) == isThinkingPart(block) /\ ~hasValidSignature(block)

RECURSIVE removeTrailingThinkingBlocks(_)
removeTrailingThinkingBlocks(content) ==
    IF content = <<>> THEN content
    ELSE IF StripsFromEnd(content[Len(content)])
    THEN removeTrailingThinkingBlocks(SubSeq(content, 1, Len(content) - 1))
    ELSE content

\* Drops cache_control and any other extra field.
sanitizeAnthropicThinkingBlock(block) ==
    IF block.type = "thinking"
    THEN ThinkingBlock(block.thinking, block.signature, FALSE)
    ELSE IF block.type = "redacted_thinking"
    THEN RedactedThinkingBlock
    ELSE block

\* block.signature && block.signature.length >= MIN_SIGNATURE_LENGTH
KeepsSigned(block) ==
    block.signature # NoSig /\ block.signature.len >= MIN_SIGNATURE_LENGTH

RECURSIVE restoreThinkingSignatures(_)
restoreThinkingSignatures(content) ==
    IF content = <<>> THEN <<>>
    ELSE LET block == Head(content)
             rest == restoreThinkingSignatures(Tail(content))
         IN  IF block.type # "thinking" THEN <<block>> \o rest
             ELSE IF KeepsSigned(block)
             THEN <<sanitizeAnthropicThinkingBlock(block)>> \o rest
             ELSE rest

IsThinkingType(block) == block.type \in {"thinking", "redacted_thinking"}
\* block.text && block.text.trim().length > 0
MeaningfulText(block) ==
    block.text # UNDEFINED /\ block.text # "" /\ Len(Trim(block.text)) > 0

Sanitized(blocks) == [i \in DOMAIN blocks |-> sanitizeAnthropicThinkingBlock(blocks[i])]

\* const reordered = [...thinkingBlocks, ...textBlocks, ...toolUseBlocks]
ToolUseBeforeText(thinkingBlocks, textBlocks, toolUseBlocks) ==
    thinkingBlocks \o toolUseBlocks \o textBlocks
Reordered(thinkingBlocks, textBlocks, toolUseBlocks) ==
    thinkingBlocks \o textBlocks \o toolUseBlocks

reorderAssistantContent(content) ==
    IF Len(content) = 1
    THEN IF IsThinkingType(content[1])
         THEN <<sanitizeAnthropicThinkingBlock(content[1])>>
         ELSE content
    ELSE LET thinkingBlocks == Sanitized(SelectSeq(content, IsThinkingType))
             toolUseBlocks == SelectSeq(content, LAMBDA b : b.type = "tool_use")
             textBlocks == SelectSeq(content, LAMBDA b :
                                /\ ~IsThinkingType(b)
                                /\ b.type # "tool_use"
                                /\ (b.type = "text" => MeaningfulText(b)))
         IN  Reordered(thinkingBlocks, textBlocks, toolUseBlocks)

\* The test of the thinking branch of convertContentToParts.
EmitsAnySigned(block) == block.signature # NoSig
EmitsThought(block) ==
    block.signature # NoSig /\ block.signature.len >= MIN_SIGNATURE_LENGTH

RECURSIVE convertContentToParts(_, _)
convertContentToParts(content, isClaudeModel) ==
    IF content = <<>> THEN <<>>
    ELSE LET block == Head(content)
             rest == convertContentToParts(Tail(content), isClaudeModel)
         IN  CASE block.type = "text" ->
                    IF block.text # UNDEFINED /\ Trim(block.text) # ""
                    THEN <<TextPart(block.text)>> \o rest
                    ELSE rest
               [] block.type = "tool_use" ->
                    <<FunctionCallPart(block.functionCall)>> \o rest
               [] block.type = "thinking" ->
                    IF EmitsThought(block)
                    THEN <<ThoughtPart(block.thinking, block.signature)>> \o rest
                    ELSE rest
               [] OTHER -> rest

\* restoreThinkingSignatures, removeTrailingThinkingBlocks, then
\* reorderAssistantContent: what an assistant message goes through.
AssistantPipeline(content) ==
    reorderAssistantContent(
        removeTrailingThinkingBlocks(
            restoreThinkingSignatures(content)))

convertRole(role) == IF role = "assistant" THEN "model" ELSE "user"

\* The contents of convertAnthropicToGoogle(anthropicRequest).
convertAnthropicToGoogle(messages, isClaudeModel) ==
    LET msgContent(msg) ==
            IF msg.role \in {"assistant", "model"}
            THEN AssistantPipeline(msg.content)
            ELSE msg.content
        contents ==
            [i \in DOMAIN messages |->
                [role |-> convertRole(messages[i].role),
                 parts |-> convertContentToParts(msgContent(messages[i]), isClaudeModel)]]
    IN  IF isClaudeModel THEN filterUnsignedThinkingBlocks(contents) ELSE contents

\* Signatures and blocks a client can send.
Signatures == {NoSig, [id |-> "s1", len |-> 49], [id |-> "s2", len |-> 50],
               [id |-> "s3", len |-> 64]}
Blocks ==
    {TextBlock("hi"), TextBlock(" "), ToolUseBlock("get_weather"), RedactedThinkingBlock}
    \cup {ThinkingBlock("t" \o sig.id, sig, sig.len = 50) : sig \in Signatures}

IdleConv == [phase |-> "idle", isClaudeModel |-> FALSE, messages |-> <<>>, contents |-> <<>>]

NumBlocks(messages) ==
    LET RECURSIVE Sum(_)
        Sum(i) == IF i = 0 THEN 0 ELSE Len(messages[i].content) + Sum(i - 1)
    IN  Sum(Len(messages))

(***************************************************************************)
(* The streaming reassembler (CloudCodeOutput.streamSSEResponse)           *)
(***************************************************************************)
\* A part whose text is not a string: part.text.trim is not a function.
NOT_A_STRING == "<number>"
\* A part with none of the fields the reassembler looks at.
OtherPart == Item(UNDEFINED, UNDEFINED, UNDEFINED, NoSig, FALSE, NoSig, UNDEFINED, FALSE)

\* The parts upstream can send, and the finishReason of a frame.
StreamParts ==
    {ThoughtPart("t", NoSig), ThoughtPart("t", [id |-> "s1", len |-> 49]),
     ThoughtPart("t", [id |-> "s2", len |-> 50]),
     ThoughtPart("t", [id |-> "s3", len |-> 64]),
     TextPart("hi"), TextPart(""), TextPart(" "), TextPart(NOT_A_STRING),
     FunctionCallPart("get_weather"), OtherPart}
FinishReasons == {UNDEFINED, "STOP", "MAX_TOKENS", "OTHER"}

\* The events: type, index, the type of the block or the delta, and the text,
\* signature or stop_reason carried.
Event(type, index, kind, data) ==
    [type |-> type, index |-> index, kind |-> kind, data |-> data]

\* The locals of streamSSEResponse; currentBlockType null is "null", the empty
\* currentThinkingSignature is NoSig. inFrame: a frame is being worked on;
\* frames, parts: what was read so far; calls: a functionCall part was among it;
\* received (history): for every thought part handled, the index of its block
\* and its thoughtSignature.
IdleSse ==
    [phase |-> "idle", hasEmittedStart |-> FALSE, blockIndex |-> 0,
     currentBlockType |-> "null", currentThinkingSignature |-> NoSig,
     stopReason |-> "end_turn", inFrame |-> FALSE, frames |-> 0, parts |-> 0,
     calls |-> FALSE, events |-> <<>>, received |-> <<>>]

Emit(st, e) == [st EXCEPT !.events = Append(@, e)]

\* if (!hasEmittedStart && parts.length > 0) yield message_start
StartMessage(st) ==
    IF st.hasEmittedStart THEN st
    ELSE Emit([st EXCEPT !.hasEmittedStart = TRUE],
              Event("message_start", 0, "", ""))

\* The index of the block after the one just stopped.
SameBlockIndex(blockIndex) == blockIndex
NextBlockIndex(blockIndex) == blockIndex + 1

\* if (currentBlockType !== null) { yield content_block_stop; blockIndex++ }
CloseBlock(st) ==
    IF st.currentBlockType = "null" THEN st
    ELSE [Emit(st, Event("content_block_stop", st.blockIndex, "", ""))
            EXCEPT !.blockIndex = NextBlockIndex(st.blockIndex)]

\* if (currentBlockType === 'thinking' && currentThinkingSignature)
\*     { yield signature_delta; currentThinkingSignature = '' }
KeepSignature(st) == st
FlushSignature(st) ==
    IF st.currentBlockType = "thinking" /\ st.currentThinkingSignature # NoSig
    THEN [Emit(st, Event("content_block_delta", st.blockIndex, "signature_delta",
                         st.currentThinkingSignature.id))
            EXCEPT !.currentThinkingSignature = NoSig]
    ELSE st

\* signature && signature.length >= MIN_SIGNATURE_LENGTH
AnySignature(signature) == signature # NoSig
ValidSignature(signature) ==
    signature # NoSig /\ signature.len >= MIN_SIGNATURE_LENGTH

OpenBlock(st, type) ==
    Emit([st EXCEPT !.currentBlockType = type],
         Event("content_block_start", st.blockIndex, type, ""))

\* One iteration of for (const part of parts), for a part that does not throw.
OnPart(st, part) ==
    IF part.thought = TRUE
    THEN LET opened == IF st.currentBlockType # "thinking"
                       THEN OpenBlock([CloseBlock(st) EXCEPT
                                        !.currentThinkingSignature = NoSig], "thinking")
                       ELSE st
             signed == IF ValidSignature(part.thoughtSignature)
                       THEN [opened EXCEPT !.currentThinkingSignature = part.thoughtSignature]
                       ELSE opened
         IN  Emit(signed, Event("content_block_delta", signed.blockIndex, "thinking_delta",
                                IF part.text = UNDEFINED THEN "" ELSE part.text))
    ELSE IF part.text # UNDEFINED
    THEN IF part.text = "" \/ Len(Trim(part.text)) = 0
         THEN st
         ELSE LET opened == IF st.currentBlockType # "text"
                            THEN OpenBlock(CloseBlock(FlushSignature(st)), "text")
                            ELSE st
              IN  Emit(opened, Event("content_block_delta", opened.blockIndex,
                                     "text_delta", part.text))
    ELSE IF part.functionCall # UNDEFINED
    THEN LET closed == CloseBlock(FlushSignature(st))
             opened == OpenBlock([closed EXCEPT !.stopReason = "tool_use"], "tool_use")
         IN  Emit(opened, Event("content_block_delta", opened.blockIndex,
                                "input_json_delta", "{}"))
    ELSE st

\* The part makes the iteration throw a TypeError, caught as a parse error.
Throws(part) ==
    part.thought # TRUE /\ part.text = NOT_A_STRING

\* if (firstCandidate.finishReason) ...
OnFinishReason(st, finishReason) ==
    IF finishReason = "MAX_TOKENS" THEN [st EXCEPT !.stopReason = "max_tokens"]
    ELSE IF finishReason = "STOP" THEN [st EXCEPT !.stopReason = "end_turn"]
    ELSE st

\* if (!hasEmittedStart): the message made up for a feed without content.
NoFallback(st) == st
NoResponseFallback(st) ==
    Emit(Emit(Emit(Emit(st,
        Event("message_start", 0, "", "")),
        Event("content_block_start", 0, "text", "")),
        Event("content_block_delta", 0, "text_delta",
              "[No response received from API]")),
        Event("content_block_stop", 0, "", ""))

\* After the read loop: the fallback message or the stop of the open block,
\* then message_delta and message_stop.
OnEnd(st) ==
    LET closed ==
            IF ~st.hasEmittedStart
            THEN NoResponseFallback(st)
            ELSE IF st.currentBlockType # "null"
            THEN LET flushed ==
                        IF /\ st.currentBlockType = "thinking"
                           /\ st.currentThinkingSignature # NoSig
                        THEN Emit(st, Event("content_block_delta", st.blockIndex,
                                            "signature_delta",
                                            st.currentThinkingSignature.id))
                        ELSE st
                 IN  Emit(flushed, Event("content_block_stop", st.blockIndex, "", ""))
            ELSE st
    IN  Emit(Emit(closed, Event("message_delta", 0, "", closed.stopReason)),
             Event("message_stop", 0, "", ""))

(***************************************************************************)
(* The response converter (format converter: convertGoogleToAnthropic)     *)
(***************************************************************************)
ResponseParts ==
    {ThoughtPart("t", [id |-> "s2", len |-> 50]), TextPart("hi"),
     FunctionCallPart("get_weather"), OtherPart}
ResponseFinishReasons == {UNDEFINED, "STOP", "MAX_TOKENS", "TOOL_USE", "OTHER"}

\* The content blocks of the parts, and whether a tool call was among them.
RECURSIVE ContentOfParts(_)
ContentOfParts(parts) ==
    IF parts = <<>> THEN <<>>
    ELSE LET part == Head(parts)
             rest == ContentOfParts(Tail(parts))
         IN  IF part.text # UNDEFINED
             THEN IF part.thought = TRUE
                  THEN <<ThinkingBlock(part.text, part.thoughtSignature, FALSE)>> \o rest
                  ELSE <<TextBlock(part.text)>> \o rest
             ELSE IF part.functionCall # UNDEFINED
             THEN <<ToolUseBlock(part.functionCall)>> \o rest
             ELSE rest

hasToolCalls(parts) ==
    \E k \in DOMAIN parts :
        parts[k].text = UNDEFINED /\ parts[k].functionCall # UNDEFINED

\* convertGoogleToAnthropic(googleResponse, model): content and stop_reason
convertGoogleToAnthropic(parts, finishReason) ==
    LET anthropicContent == ContentOfParts(parts)
    IN  [content |-> IF Len(anthropicContent) > 0 THEN anthropicContent
                     ELSE <<TextBlock("")>>,
         stop_reason |->
            IF finishReason = "STOP" THEN "end_turn"
            ELSE IF finishReason = "MAX_TOKENS" THEN "max_tokens"
            ELSE IF finishReason = "TOOL_USE" \/ hasToolCalls(parts) THEN "tool_use"
            ELSE "end_turn"]

IdleResp ==
    [phase |-> "idle", parts |-> <<>>, finishReason |-> UNDEFINED,
     out |-> [content |-> <<>>, stop_reason |-> ""]]

(***************************************************************************)
(* The assistant-message pipeline of convertAnthropicToGoogle, on its own  *)
(***************************************************************************)
\* A block of a type the converter has no case for in the reorder.
ImageBlock == Item("image", UNDEFINED, UNDEFINED, NoSig, FALSE, NoSig, UNDEFINED, FALSE)
PipelineBlocks == Blocks \cup {ImageBlock, TextBlock("")}

IdlePipe ==
    [phase |-> "idle", content |-> <<>>, trimmed |-> <<>>, reordered |-> <<>>,
     once |-> <<>>, twice |-> <<>>]

(***************************************************************************)
(* The tool-schema sanitizer (sanitizeSchema of the format converter)      *)
(*                                                                         *)
(* A JSON value is a record with a kind: null, boolean (a value that is    *)
(* not an object), array, map (the object under 'properties', its entries  *)
(* in key order) and schema (an object read as a JSON Schema: its type,    *)
(* '' for none, its properties and items, absent for none, whether it has  *)
(* a const, an enum, a required list, and a field outside the allowlist).  *)
(***************************************************************************)
MaxDepth == 2           \* nesting of schemas under properties and items

Absent == [kind |-> "absent"]
JsNull == [kind |-> "null"]
JsTrue == [kind |-> "boolean"]
JsArray(elems) == [kind |-> "array", elems |-> elems]
PropertyMap(entries) == [kind |-> "map", entries |-> entries]
Schema(type, properties, items, hasConst, hasEnum, required, unknown) ==
    [kind |-> "schema", type |-> type, properties |-> properties, items |-> items,
     hasConst |-> hasConst, hasEnum |-> hasEnum, required |-> required,
     unknown |-> unknown]

SchemaTypes == {"object", "string", "array"}

\* { reason: { type: 'string', description: 'Reason for calling this tool' } }
ReasonProperties ==
    PropertyMap(<<Schema("string", Absent, Absent, FALSE, FALSE, FALSE, FALSE)>>)
\* The placeholder returned for an empty or missing schema.
Placeholder == Schema("object", ReasonProperties, Absent, FALSE, FALSE, TRUE, FALSE)

\* Object.keys(value).length, for the value left under 'properties'
SomeKeys(value) == 1
NumKeys(value) == IF value.kind = "map" THEN Len(value.entries) ELSE 0

\* The fields of an array seen through Object.entries: its indices, none of
\* them in the allowlist.
AsObject(value) ==
    IF value.kind = "array"
    THEN Schema("", Absent, Absent, FALSE, FALSE, FALSE, TRUE)
    ELSE value

RECURSIVE sanitizeSchema(_)
sanitizeSchema(schema) ==
    IF schema.kind \in {"null", "boolean"} THEN Placeholder
    ELSE LET o == AsObject(schema)
             properties ==
                 IF o.properties.kind = "map"
                 THEN PropertyMap([i \in DOMAIN o.properties.entries |->
                                    sanitizeSchema(o.properties.entries[i])])
                 ELSE o.properties
             items ==
                 IF o.items.kind = "array"
                 THEN JsArray([i \in DOMAIN o.items.elems |->
                                    sanitizeSchema(o.items.elems[i])])
                 ELSE IF o.items.kind = "schema" THEN sanitizeSchema(o.items)
                 ELSE o.items
             type == IF o.type = "" THEN "object" ELSE o.type
             placeholder ==
                 /\ type = "object"
                 /\ (properties.kind \in {"absent", "null"} \/ NumKeys(properties) = 0)
         IN  Schema(type,
                    IF placeholder THEN ReasonProperties ELSE properties,
                    items,
                    FALSE,
                    o.hasConst \/ o.hasEnum,
                    IF placeholder THEN TRUE ELSE o.required,
                    FALSE)

\* The schemas without a schema inside.
LeafSchemas ==
    {JsNull, JsTrue, JsArray(<<>>)}
    \cup {Schema(type, properties, Absent, hasConst, FALSE, FALSE, unknown) :
            type \in SchemaTypes \cup {""},
            properties \in {Absent, JsNull, PropertyMap(<<>>)},
            hasConst \in BOOLEAN, unknown \in BOOLEAN}

IdleTool == [phase |-> "idle", depth |-> 0, schema |-> Absent, sanitized |-> Absent]
(***************************************************************************)
(* The model aggregator (ModelAggregator.resolve over model_groups and     *)
(* model_group_items)                                                      *)
(***************************************************************************)
MaxItems == 3           \* rows of model_group_items of the group
MaxOrderIndex == 2      \* the largest order_index of a row

GroupItem(model_name, order_index) ==
    [model_name |-> model_name, order_index |-> order_index]
Strategies == {"priority", "random"}

\* The place of items[i] among the items in ascending order_index, rows of the
\* same order_index in the order they are in.
OrderRank(items, i) ==
    1 + Cardinality({j \in DOMAIN items :
            \/ items[j].order_index < items[i].order_index
            \/ (items[j].order_index = items[i].order_index /\ j < i)})
\* ... ORDER BY order_index ASC, and candidates.sort((a, b) => a.order_index - b.order_index)
SortByOrderIndex(items) ==
    [k \in DOMAIN items |-> items[CHOOSE i \in DOMAIN items : OrderRank(items, i) = k]]

\* getModelGroup(userId, alias).items
getModelGroup(rows) == SortByOrderIndex(rows)

\* [candidates[i], candidates[j]] = [candidates[j], candidates[i]]
Overwrite(candidates, i, j) == [candidates EXCEPT ![i] = candidates[j]]
Swap(candidates, i, j) ==
    [candidates EXCEPT ![i] = candidates[j], ![j] = candidates[i]]

\* The Fisher-Yates shuffle from index i down; js[i] is the j drawn at i.
RECURSIVE Shuffle(_, _, _)
Shuffle(candidates, i, js) ==
    IF i <= 1 THEN candidates
    ELSE Shuffle(Swap(candidates, i, js[i]), i - 1, js)

\* The draws of Math.floor(Math.random() * (i + 1)) of a shuffle of n items.
Draws(n) == {js \in [1..n -> 1..n] : \A i \in 1..n : js[i] <= i}

ModelNames(candidates) == [k \in DOMAIN candidates |-> candidates[k].model_name]

\* resolve(userId, modelName), for the group found (exists), its strategy and
\* items, and the draws of the shuffle.
resolve(modelName, exists, strategy, items, js) ==
    IF ~exists \/ Len(items) = 0 THEN <<modelName>>
    ELSE IF strategy = "random" THEN ModelNames(Shuffle(items, Len(items), js))
    ELSE ModelNames(SortByOrderIndex(items))

\* exists, strategy, rows: the row of model_groups for the alias and its rows
\* of model_group_items in rowid order; candidates: what resolve returned;
\* read: the rows as they were when resolve was called.
IdleAgg ==
    [phase |-> "idle", exists |-> FALSE, strategy |-> "priority", rows |-> <<>>,
     read |-> <<>>, candidates |-> <<>>]
(***************************************************************************)
(* The round trip of text and tool_use blocks: convertContentToParts, then *)
(* convertGoogleToAnthropic on the parts, with the fields of a tool call   *)
(* (id, name, input / args) spelled out.                                   *)
(***************************************************************************)
\* A text or tool_use block; input is the JSON of the arguments.
TripBlock(type, text, id, name, input) ==
    [type |-> type, text |-> text, id |-> id, name |-> name, input |-> input]
NoCall == [name |-> UNDEFINED, args |-> UNDEFINED, id |-> UNDEFINED]
TripPart(text, functionCall) == [text |-> text, functionCall |-> functionCall]

\* `toolu_${crypto.randomBytes(12).toString('hex')}`
GeneratedId == "toolu_<random>"

TripTexts == {"hi", "ho", " ", ""}
TripBlocks ==
    {TripBlock("text", text, UNDEFINED, UNDEFINED, UNDEFINED) : text \in TripTexts}
    \cup {TripBlock("tool_use", UNDEFINED, id, name, input) :
            id \in {"toolu_1", UNDEFINED}, name \in {"get_weather", "search"},
            input \in {"{}", "{\"q\":1}"}}

\* One iteration of the loop of convertContentToParts, for a text or tool_use
\* block: the parts pushed.
PartsOfBlock(block, isClaudeModel) ==
    IF block.type = "text"
    THEN IF block.text # UNDEFINED /\ block.text # "" /\ Trim(block.text) # ""
         THEN <<TripPart(block.text, NoCall)>>
         ELSE <<>>
    ELSE <<TripPart(UNDEFINED,
                    [name |-> block.name,
                     args |-> IF block.input = UNDEFINED THEN "{}" ELSE block.input,
                     id |-> IF isClaudeModel /\ block.id # UNDEFINED
                            THEN block.id ELSE UNDEFINED])>>

RECURSIVE PartsOfContent(_, _)
PartsOfContent(content, isClaudeModel) ==
    IF content = <<>> THEN <<>>
    ELSE PartsOfBlock(Head(content), isClaudeModel)
            \o PartsOfContent(Tail(content), isClaudeModel)

\* id: part.functionCall.id || `toolu_...`
FreshId(functionCall) == GeneratedId
ToolUseId(functionCall) ==
    IF functionCall.id # UNDEFINED THEN functionCall.id ELSE GeneratedId

\* One iteration of the loop of convertGoogleToAnthropic, for a part that is
\* not a thought: the blocks pushed.
BlocksOfPart(part) ==
    IF part.text # UNDEFINED
    THEN <<TripBlock("text", part.text, UNDEFINED, UNDEFINED, UNDEFINED)>>
    ELSE IF part.functionCall # NoCall
    THEN <<TripBlock("tool_use", UNDEFINED, ToolUseId(part.functionCall),
                     part.functionCall.name,
                     IF part.functionCall.args = UNDEFINED THEN "{}"
                     ELSE part.functionCall.args)>>
    ELSE <<>>

RECURSIVE BlocksOfParts(_)
BlocksOfParts(parts) ==
    IF parts = <<>> THEN <<>>
    ELSE BlocksOfPart(Head(parts)) \o BlocksOfParts(Tail(parts))

\* content: anthropicContent.length > 0 ? anthropicContent : [{ type: 'text', text: '' }]
ContentOfResponse(parts) ==
    IF BlocksOfParts(parts) = <<>>
    THEN <<TripBlock("text", "", UNDEFINED, UNDEFINED, UNDEFINED)>>
    ELSE BlocksOfParts(parts)

IdleTrip ==
    [phase |-> "idle", isClaudeModel |-> FALSE, content |-> <<>>, parts |-> <<>>,
     back |-> <<>>]
(***************************************************************************)
(* The session id (CloudCodeOutput.deriveSessionId)                        *)
(***************************************************************************)
MaxTurns == 2           \* messages of a request

\* The content of a message: a string, or an array of blocks, each a text block
\* (TextBlock) or a block of another type (ImageBlock).
StringContent(text) == [isString |-> TRUE, text |-> text, blocks |-> <<>>]
ArrayContent(blocks) == [isString |-> FALSE, text |-> "", blocks |-> blocks]
Turn(role, content) == [role |-> role, content |-> content]

Turns ==
    {Turn("user", content) :
        content \in {StringContent("a"), StringContent("b"),
                     ArrayContent(<<ImageBlock, TextBlock("a")>>),
                     ArrayContent(<<TextBlock("a"), TextBlock("b")>>),
                     ArrayContent(<<TextBlock(""), ImageBlock>>)}}
    \cup {Turn("assistant", StringContent("a"))}

\* .filter(block => block.type === 'text' && block.text).map(block => block.text).join('\n')
RECURSIVE JoinTexts(_)
JoinTexts(blocks) ==
    IF blocks = <<>> THEN ""
    ELSE LET block == Head(blocks)
             rest == JoinTexts(Tail(blocks))
         IN  IF block.type = "text" /\ block.text # UNDEFINED /\ block.text # ""
             THEN IF rest = "" /\ ~\E k \in DOMAIN Tail(blocks) :
                                    /\ Tail(blocks)[k].type = "text"
                                    /\ Tail(blocks)[k].text # UNDEFINED
                                    /\ Tail(blocks)[k].text # ""
                  THEN block.text
                  ELSE block.text \o "\n" \o rest
             ELSE rest

\* let content = ...
ContentText(content) ==
    IF content.isString THEN content.text ELSE JoinTexts(content.blocks)

\* The content the loop over the messages stops at: that of the first user
\* message whose content is not empty; '' if it stops at none.
RECURSIVE EveryUserText(_)
EveryUserText(messages) ==
    IF messages = <<>> THEN ""
    ELSE (IF Head(messages).role = "user" THEN ContentText(Head(messages).content)
          ELSE "") \o EveryUserText(Tail(messages))
RECURSIVE FirstUserText(_)
FirstUserText(messages) ==
    IF messages = <<>> THEN ""
    ELSE IF /\ Head(messages).role = "user"
            /\ ContentText(Head(messages).content) # ""
    THEN ContentText(Head(messages).content)
    ELSE FirstUserText(Tail(messages))

\* crypto.createHash('sha256').update(content).digest('hex').substring(0, 32)
Sha256(content) == "sha256:" \o content
\* What crypto.randomUUID() can return.
RandomUUIDs == {"uuid:1", "uuid:2"}

deriveSessionId(messages, uuid) ==
    IF FirstUserText(messages) # "" THEN Sha256(FirstUserText(messages)) ELSE uuid

\* Two requests: their messages and models, and the sessionId each was given.
IdleSession ==
    [phase |-> "idle", first |-> <<>>, second |-> <<>>, models |-> <<"m1", "m1">>,
     ids |-> <<"", "">>]
(***************************************************************************)
(* The generation config of convertAnthropicToGoogle. A number the request *)
(* does not give is 0: the code reads max_tokens and budget_tokens by      *)
(* truthiness.                                                             *)
(***************************************************************************)
\* max_tokens and thinking.budget_tokens of a request
MaxTokensValues == {0, 1, 1024, 16000, 16001, 63999, 64000, 64001, 100000, 200000}
BudgetTokensValues == {0, 1, 1024, 16000, 63999, 64000, 64001, 100000}

\* thinking?.budget_tokens || DEFAULT_THINKING_BUDGET
thinkingBudget(budget_tokens) ==
    IF budget_tokens # 0 THEN budget_tokens ELSE DEFAULT_THINKING_BUDGET

\* if (!maxOutputTokens || maxOutputTokens <= thinkingBudget)
LargeEnough(maxOutputTokens, budget) ==
    maxOutputTokens # 0 /\ maxOutputTokens > budget

\* generationConfig: maxOutputTokens (0: not set) and, for a Claude thinking
\* model, thinkingConfig.thinking_budget (0: no thinkingConfig)
generationConfig(max_tokens, budget_tokens, isClaudeThinkingModel) ==
    IF isClaudeThinkingModel
    THEN [maxOutputTokens |->
                IF LargeEnough(max_tokens, thinkingBudget(budget_tokens))
                THEN max_tokens
                ELSE CLAUDE_THINKING_MAX_OUTPUT_TOKENS,
          thinking_budget |-> thinkingBudget(budget_tokens)]
    ELSE [maxOutputTokens |-> max_tokens, thinking_budget |-> 0]

IdleConfig ==
    [phase |-> "idle", max_tokens |-> 0, budget_tokens |-> 0,
     isClaudeThinkingModel |-> FALSE,
     generationConfig |-> [maxOutputTokens |-> 0, thinking_budget |-> 0]]

(***************************************************************************)
(* The token cache (AccountManager.getTokenForAccount)                     *)
(*                                                                         *)
(* One account and its entry of #tokenCache. The account is the row the    *)
(* caller read; a call of getTokenForAccount is one step, with the outcome *)
(* of refreshAccessToken chosen by the environment.                        *)
(***************************************************************************)
TOKEN_REFRESH_INTERVAL_MS == 300000
MaxTokenCalls == 3
\* Time passes in steps of half the refresh interval.
TokenTickMs == TOKEN_REFRESH_INTERVAL_MS \div 2

NoCache == [token |-> "", extractedAt |-> 0, set |-> FALSE]
CacheEntry(token, t) == [token |-> token, extractedAt |-> t, set |-> TRUE]

AccountSources == {"oauth", "manual", "database"}
\* error.message of a rejected refreshAccessToken
RefreshMessages == {"invalid_grant", "fetch failed"}
RefreshOutcomes == {"refreshed"} \cup RefreshMessages

\* cached && (Date.now() - cached.extractedAt) < TOKEN_REFRESH_INTERVAL_MS
CacheFresh(cached, t) == cached.set /\ (t - cached.extractedAt) < TOKEN_REFRESH_INTERVAL_MS

\* account.source === 'oauth' && account.refresh_token
NeedsRefresh(account) == account.source = "oauth" /\ account.refresh_token

NoTokenCall ==
    [cached |-> NoCache, at |-> 0, account |-> [source |-> "", refresh_token |-> FALSE,
                                                 access_token |-> "", is_invalid |-> FALSE,
                                                 invalid_reason |-> ""],
     refreshes |-> 0, outcome |-> "", result |-> "", error |-> ""]

\* The catch of the refresh: markInvalid(account, error.message), then
\* throw new Error(`AUTH_INVALID: ${account.email}: ${error.message}`).
\* [account, cache, result, error] after it.
RefreshFailsQuietly(account, cache, message) ==
    [account |-> account, cache |-> cache, result |-> "threw",
     error |-> "AUTH_INVALID: " \o message]
RefreshFails(account, cache, message) ==
    [account |-> [account EXCEPT !.is_invalid = TRUE, !.invalid_reason = message],
     cache |-> cache, result |-> "threw", error |-> "AUTH_INVALID: " \o message]

\* The tail of getTokenForAccount: throw without a token, else cache and return.
CacheAndReturn(account, cache, token, t) ==
    IF token = ""
    THEN [account |-> account, cache |-> cache, result |-> "threw",
          error |-> "No token found"]
    ELSE [account |-> account, cache |-> CacheEntry(token, t), result |-> token,
          error |-> ""]

\* getTokenForAccount(account) at time t, with refreshAccessToken settling as
\* outcome and handing out newToken. [account, cache, result, error, refreshes].
getTokenForAccount(account, cache, t, outcome, newToken) ==
    IF CacheFresh(cache, t)
    THEN [account |-> account, cache |-> cache, result |-> cache.token,
          error |-> "", refreshes |-> 0]
    ELSE IF NeedsRefresh(account)
         THEN IF outcome = "refreshed"
              THEN LET updated == [account EXCEPT !.access_token = newToken,
                                                  !.is_invalid = FALSE,
                                                  !.invalid_reason = ""]
                       r == CacheAndReturn(updated, cache, newToken, t)
                   IN  [account |-> r.account, cache |-> r.cache, result |-> r.result,
                        error |-> r.error, refreshes |-> 1]
              ELSE LET r == RefreshFails(account, cache, outcome)
                   IN  [account |-> r.account, cache |-> r.cache, result |-> r.result,
                        error |-> r.error, refreshes |-> 1]
         ELSE LET r == CacheAndReturn(account, cache, account.access_token, t)
              IN  [account |-> r.account, cache |-> r.cache, result |-> r.result,
                   error |-> r.error, refreshes |-> 0]

IdleTok ==
    [phase |-> "idle", t |-> 0, account |-> NoTokenCall.account, cache |-> NoCache,
     calls |-> 0, last |-> NoTokenCall]

(***************************************************************************)
(* The read loop of streamSSEResponse: chunks, lines and frames.           *)
(*                                                                         *)
(* The upstream text is a sequence of units. A line of the text is two     *)
(* units (its first and second half) or none (a blank line), and NL is the *)
(* newline; a chunk is any run of units, so that a chunk can end inside a  *)
(* line. A frame is the JSON of a data line: its parts, its finishReason   *)
(* and its usageMetadata.                                                  *)
(***************************************************************************)
MaxLines == 3

NoUsage == [set |-> FALSE, promptTokenCount |-> 0, candidatesTokenCount |-> 0,
            cachedContentTokenCount |-> 0]
Usage(prompt, candidates, cached) ==
    [set |-> TRUE, promptTokenCount |-> prompt, candidatesTokenCount |-> candidates,
     cachedContentTokenCount |-> cached]

Frame(parts, finishReason, usage) ==
    [parts |-> parts, finishReason |-> finishReason, usageMetadata |-> usage]
NoFrame == Frame(<<>>, UNDEFINED, NoUsage)

\* kind: "frame" is 'data: <JSON>', "bad" is 'data: ' with text that is not
\* JSON, "empty" is 'data:' and blanks, "other" is a line of another field,
\* "blank" is the empty line.
Line(id, kind, frame) == [id |-> id, kind |-> kind, frame |-> frame]

Lines ==
    {Line("think", "frame",
          Frame(<<ThoughtPart("t", [id |-> "s2", len |-> 50])>>, UNDEFINED, NoUsage)),
     Line("text", "frame", Frame(<<TextPart("hi")>>, UNDEFINED, Usage(10, 5, 2))),
     Line("call", "frame", Frame(<<FunctionCallPart("get_weather")>>, "STOP", NoUsage)),
     Line("fin", "frame", Frame(<<>>, "MAX_TOKENS", Usage(10, 9, 0))),
     Line("bad", "bad", NoFrame),
     Line("empty", "empty", NoFrame),
     Line("event", "other", NoFrame),
     Line("blank", "blank", NoFrame)}

LineOf(id) == CHOOSE line \in Lines : line.id = id

NL == [line |-> "", half |-> 0]
UnitsOf(line) ==
    IF line.kind = "blank" THEN <<>>
    ELSE <<[line |-> line.id, half |-> 1], [line |-> line.id, half |-> 2]>>

\* The text of the lines, every line ended by a newline but, with ~terminated,
\* the last one.
RECURSIVE TextOf(_, _)
TextOf(lines, terminated) ==
    IF lines = <<>> THEN <<>>
    ELSE UnitsOf(Head(lines))
            \o (IF Len(lines) > 1 \/ terminated THEN <<NL>> ELSE <<>>)
            \o TextOf(Tail(lines), terminated)

\* buffer.split('\n'): the runs of units between the newlines; the last run is
\* what follows the last newline.
RECURSIVE Split(_)
Split(buffer) ==
    IF \A k \in DOMAIN buffer : buffer[k] # NL THEN <<buffer>>
    ELSE LET k == CHOOSE j \in DOMAIN buffer :
                    buffer[j] = NL /\ \A i \in 1..(j - 1) : buffer[i] # NL
         IN  <<SubSeq(buffer, 1, k - 1)>> \o Split(SubSeq(buffer, k + 1, Len(buffer)))

\* buffer = lines.pop() || ''
DropsPartialLine(segments) == <<>>
PartialLine(segments) == segments[Len(segments)]

\* line.startsWith('data:'), jsonText = line.slice(5).trim(), JSON.parse:
\* "skip" for a line that is no data line or has no jsonText, "error" when
\* JSON.parse throws, "frame" with the frame parsed.
ParseLine(segment) ==
    IF segment = <<>> \/ segment[1] = NL \/ segment[1].half # 1
    THEN [is |-> "skip", frame |-> NoFrame]
    ELSE LET line == LineOf(segment[1].line)
         IN  IF line.kind = "other" \/ line.kind = "empty"
             THEN [is |-> "skip", frame |-> NoFrame]
             ELSE IF line.kind = "frame" /\ segment = UnitsOf(line)
             THEN [is |-> "frame", frame |-> line.frame]
             ELSE [is |-> "error", frame |-> NoFrame]

\* The locals of streamSSEResponse that count tokens.
NoTokens == [inputTokens |-> 0, outputTokens |-> 0, cacheReadTokens |-> 0]

\* if (usage) { inputTokens = usage.promptTokenCount || inputTokens; ... }
OnUsage(tokens, usage) ==
    IF ~usage.set THEN tokens
    ELSE [inputTokens |-> IF usage.promptTokenCount # 0
                          THEN usage.promptTokenCount ELSE tokens.inputTokens,
          outputTokens |-> IF usage.candidatesTokenCount # 0
                           THEN usage.candidatesTokenCount ELSE tokens.outputTokens,
          cacheReadTokens |-> IF usage.cachedContentTokenCount # 0
                              THEN usage.cachedContentTokenCount
                              ELSE tokens.cacheReadTokens]

\* for (const part of parts): a part that throws ends the loop, and the frame.
\* [st, threw] after it.
RECURSIVE OnParts(_, _)
OnParts(st, parts) ==
    IF parts = <<>> THEN [st |-> st, threw |-> FALSE]
    ELSE IF Throws(Head(parts)) THEN [st |-> st, threw |-> TRUE]
    ELSE OnParts(OnPart(st, Head(parts)), Tail(parts))

\* The body of the try for one parsed frame. loc: [st, tokens].
OnFrame(loc, frame) ==
    LET begun == IF Len(frame.parts) > 0 THEN StartMessage(loc.st) ELSE loc.st
        done == OnParts(begun, frame.parts)
    IN  [st |-> IF done.threw THEN done.st
                ELSE OnFinishReason(done.st, frame.finishReason),
         tokens |-> OnUsage(loc.tokens, frame.usageMetadata)]

\* catch (parseError) { console.log(...) }
ResetOnParseError(loc) == [loc EXCEPT !.st.currentBlockType = "null"]
OnParseError(loc) == loc

\* One iteration of for (const line of lines).
OnLine(loc, segment) ==
    LET parsed == ParseLine(segment)
    IN  CASE parsed.is = "skip" -> loc
          [] parsed.is = "error" -> OnParseError(loc)
          [] parsed.is = "frame" -> OnFrame(loc, parsed.frame)

RECURSIVE OnLines(_, _)
OnLines(loc, segments) ==
    IF segments = <<>> THEN loc
    ELSE OnLines(OnLine(loc, Head(segments)), Tail(segments))

\* One iteration of the read loop for a chunk: [buffer, loc] after it.
OnChunk(buffer, loc, chunk) ==
    LET segments == Split(buffer \o chunk)
    IN  [buffer |-> PartialLine(segments),
         loc |-> OnLines(loc, SubSeq(segments, 1, Len(segments) - 1))]

\* inside (history): a chunk ended between the two halves of a line.
IdleRd ==
    [phase |-> "idle", lines |-> <<>>, terminated |-> TRUE, read |-> 0,
     inside |-> FALSE, buffer |-> <<>>, loc |-> [st |-> IdleSse, tokens |-> NoTokens]]

(***************************************************************************)
(* The request and its conversion as objects. An object or array is a cell *)
(* of the heap and is known by its reference, its index in the heap; an    *)
(* array holds the references of its elements. A function that builds a    *)
(* new object or array allocates a cell, one that hands back its argument  *)
(* returns the same reference, and an assignment to a property or a push   *)
(* writes the cell of the object or array it is made on.                   *)
(***************************************************************************)
MaxSystem == 2

HINT == "\n\nInterleaved thinking is enabled."

Plain(type, text) == Item(type, text, UNDEFINED, NoSig, FALSE, NoSig, UNDEFINED, FALSE)
Cell(value, elems) == [value |-> value, elems |-> elems]
NewArray == Cell(Plain("array", UNDEFINED), <<>>)

\* [heap, ref] after a new object or array.
Alloc(heap, cell) == [heap |-> Append(heap, cell), ref |-> Len(heap) + 1]
\* array.push(ref)
Push(heap, array, ref) == [heap EXCEPT ![array].elems = Append(@, ref)]
\* [heap, ref] after a new object was pushed on the array.
PushNew(heap, array, value) ==
    LET a == Alloc(heap, Cell(value, <<>>))
    IN  Push(a.heap, array, a.ref)

\* system.filter(block => block.type === 'text').map(block => ({ text: block.text })),
\* for one block of system.
SharedSystemPart(heap, block, systemParts) == Push(heap, systemParts, block)
SystemPart(heap, block, systemParts) ==
    PushNew(heap, systemParts, TextPart(heap[block].value.text))

\* One iteration of the loop of restoreThinkingSignatures.
RestoreBlock(heap, block, filtered) ==
    IF heap[block].value.type # "thinking" THEN Push(heap, filtered, block)
    ELSE IF KeepsSigned(heap[block].value)
    THEN PushNew(heap, filtered, sanitizeAnthropicThinkingBlock(heap[block].value))
    ELSE heap

\* One iteration of the loop of reorderAssistantContent, for the array a block
\* can go to.
SortBlock(heap, block, array, kind) ==
    LET value == heap[block].value
    IN  CASE kind = "thinking" ->
                IF IsThinkingType(value)
                THEN PushNew(heap, array, sanitizeAnthropicThinkingBlock(value))
                ELSE heap
          [] kind = "tool_use" ->
                IF value.type = "tool_use" THEN Push(heap, array, block) ELSE heap
          [] kind = "text" ->
                IF /\ ~IsThinkingType(value)
                   /\ value.type # "tool_use"
                   /\ (value.type = "text" => MeaningfulText(value))
                THEN Push(heap, array, block)
                ELSE heap

\* One iteration of the loop of convertContentToParts.
PartOfBlock(heap, block, parts, isClaudeModel) ==
    LET made == convertContentToParts(<<heap[block].value>>, isClaudeModel)
    IN  IF made = <<>> THEN heap ELSE PushNew(heap, parts, made[1])

\* One iteration of the loop of filterContentArray.
FilterPart(heap, part, filtered) ==
    IF ~isThinkingPart(heap[part].value) THEN Push(heap, filtered, part)
    ELSE IF hasValidSignature(heap[part].value)
    THEN PushNew(heap, filtered, sanitizeThinkingPart(heap[part].value))
    ELSE heap

\* for (const x of refs): the loop named by step, filling the array.
RECURSIVE ForEach(_, _, _, _, _)
ForEach(heap, refs, array, step, isClaudeModel) ==
    IF refs = <<>> THEN heap
    ELSE LET x == Head(refs)
             next ==
                CASE step = "system" ->
                        IF heap[x].value.type = "text"
                        THEN SystemPart(heap, x, array) ELSE heap
                  [] step = "restore" -> RestoreBlock(heap, x, array)
                  [] step \in {"thinking", "tool_use", "text"} ->
                        SortBlock(heap, x, array, step)
                  [] step = "parts" -> PartOfBlock(heap, x, array, isClaudeModel)
                  [] step = "filter" -> FilterPart(heap, x, array)
                  [] step = "spread" -> Push(heap, array, x)
         IN  ForEach(next, Tail(refs), array, step, isClaudeModel)

\* A new array filled by the loop: [heap, ref].
Fill(heap, refs, step, isClaudeModel) ==
    LET a == Alloc(heap, NewArray)
    IN  [heap |-> ForEach(a.heap, refs, a.ref, step, isClaudeModel), ref |-> a.ref]

\* An array or object ref on the heap.
At(heap, ref) == [heap |-> heap, ref |-> ref]

\* restoreThinkingSignatures(content): the array filtered.
RestoredArray(content) ==
    Fill(content.heap, content.heap[content.ref].elems, "restore", FALSE)

\* removeTrailingThinkingBlocks(content): content itself, or content.slice(0, endIndex).
TrimmedArray(content) ==
    LET elems == content.heap[content.ref].elems
        values == [k \in DOMAIN elems |-> content.heap[elems[k]].value]
        endIndex == Len(removeTrailingThinkingBlocks(values))
    IN  IF endIndex < Len(values)
        THEN Fill(content.heap, SubSeq(elems, 1, endIndex), "spread", FALSE)
        ELSE content

\* [...thinkingBlocks, ...textBlocks, ...toolUseBlocks]
Spread(toolUseBlocks, thinkingBlocks, textBlocks) ==
    Fill(toolUseBlocks.heap,
         toolUseBlocks.heap[thinkingBlocks].elems
            \o toolUseBlocks.heap[textBlocks].elems
            \o toolUseBlocks.heap[toolUseBlocks.ref].elems,
         "spread", FALSE)

\* The loop of reorderAssistantContent fills thinkingBlocks, textBlocks and
\* toolUseBlocks.
ToolUseBlocks(textBlocks, elems, thinkingBlocks) ==
    Spread(Fill(textBlocks.heap, elems, "tool_use", FALSE), thinkingBlocks, textBlocks.ref)

TextBlocks(thinkingBlocks, elems) ==
    ToolUseBlocks(Fill(thinkingBlocks.heap, elems, "text", FALSE), elems,
                  thinkingBlocks.ref)

\* reorderAssistantContent(content): content itself, [sanitized], or
\* [...thinkingBlocks, ...textBlocks, ...toolUseBlocks].
ReorderedArray(content) ==
    LET elems == content.heap[content.ref].elems
    IN  IF Len(elems) = 1
        THEN IF IsThinkingType(content.heap[elems[1]].value)
             THEN Fill(content.heap, elems, "thinking", FALSE)
             ELSE content
        ELSE TextBlocks(Fill(content.heap, elems, "thinking", FALSE), elems)

\* convertContentToParts(msgContent, isClaudeModel): the array parts.
PartsArray(msgContent, isClaudeModel) ==
    Fill(msgContent.heap, msgContent.heap[msgContent.ref].elems, "parts", isClaudeModel)

\* { role: convertRole(msg.role), parts }
ContentObject(parts, role) ==
    Alloc(parts.heap, Cell(Plain(convertRole(role), UNDEFINED), <<parts.ref>>))

\* The body of the loop over messages, for one message: the content object
\* pushed on googleRequest.contents. [heap, ref].
ContentOfMessage(heap, msg, isClaudeModel) ==
    ContentObject(
        PartsArray(IF heap[msg].value.type \in {"assistant", "model"}
                   THEN ReorderedArray(TrimmedArray(RestoredArray(
                            At(heap, heap[msg].elems[1]))))
                   ELSE At(heap, heap[msg].elems[1]),
                   isClaudeModel),
        heap[msg].value.type)

\* filterUnsignedThinkingBlocks(contents), for one content:
\* { ...content, parts: filterContentArray(content.parts) }. [heap, ref].
FilteredContent(content) ==
    LET filtered == Fill(content.heap,
                         content.heap[content.heap[content.ref].elems[1]].elems,
                         "filter", FALSE)
    IN  Alloc(filtered.heap, Cell(content.heap[content.ref].value, <<filtered.ref>>))

\* if (isClaudeModel) googleRequest.contents = filterUnsignedThinkingBlocks(...)
ContentsOf(content, isClaudeModel) ==
    IF isClaudeModel THEN FilteredContent(content) ELSE content

\* system.filter(...).map(...), and systemInstruction when there are parts.
SystemParts(systemParts) ==
    IF Len(systemParts.heap[systemParts.ref].elems) > 0
    THEN systemParts
    ELSE At(systemParts.heap, 0)

\* The system instruction: the array systemParts, 0 when systemInstruction is
\* not set. system is absent (kind "absent"), a string or an array.
SystemInstruction(heap, system) ==
    CASE system.kind = "absent" -> At(heap, 0)
      [] system.kind = "string" ->
            LET systemParts == Alloc(heap, NewArray)
            IN  [heap |-> PushNew(systemParts.heap, systemParts.ref, TextPart(system.text)),
                 ref |-> systemParts.ref]
      [] system.kind = "array" ->
            SystemParts(Fill(heap, heap[system.ref].elems, "system", FALSE))

\* The interleaved thinking hint: a new systemInstruction, the text of its
\* last part extended, or a new part. [heap, ref].
WithHint(heap, parts) ==
    IF parts = 0
    THEN LET a == Alloc(heap, NewArray)
         IN  [heap |-> PushNew(a.heap, a.ref, TextPart(HINT)), ref |-> a.ref]
    ELSE LET lastPart == heap[parts].elems[Len(heap[parts].elems)]
         IN  IF heap[lastPart].value.text # UNDEFINED /\ heap[lastPart].value.text # ""
             THEN [heap |-> [heap EXCEPT ![lastPart].value.text = @ \o HINT],
                   ref |-> parts]
             ELSE [heap |-> PushNew(heap, parts, TextPart(HINT)), ref |-> parts]

\* tools.map(...): a declaration with a sanitized copy of the schema for every
\* tool. [heap, ref].
FunctionDeclarations(heap, tools) ==
    IF tools = 0 \/ Len(heap[tools].elems) = 0 THEN At(heap, 0)
    ELSE LET firstTool == heap[tools].elems[1]
             schema == heap[heap[firstTool].elems[1]].value
             sanitized == Alloc(heap, Cell([schema EXCEPT !.cache_control = FALSE], <<>>))
             declaration == Alloc(sanitized.heap,
                                  Cell(Plain("declaration", heap[firstTool].value.text),
                                       <<sanitized.ref>>))
         IN  Alloc(declaration.heap, Cell(NewArray.value, <<declaration.ref>>))

\* return googleRequest: the heap after the call and the googleRequest, with
\* its systemInstruction parts, contents and tools.
GoogleRequest(systemInstruction, contents, tools) ==
    [heap |-> tools.heap,
     googleRequest |-> [systemInstruction |-> systemInstruction,
                        contents |-> <<contents>>,
                        tools |-> tools.ref]]

\* if (anthropicRequest.tools && anthropicRequest.tools.length > 0) ...
WithTools(systemInstruction, contents, request) ==
    GoogleRequest(systemInstruction, contents.ref,
                  FunctionDeclarations(contents.heap, request.tools))

\* The loop over messages and the filter of the contents.
WithContents(systemInstruction, msg, request) ==
    WithTools(systemInstruction.ref,
              ContentsOf(ContentOfMessage(systemInstruction.heap, msg,
                                          request.isClaudeModel),
                         request.isClaudeModel),
              request)

\* if (isClaudeThinkingModel && hasTools): the hint.
WithSystem(system, heap, request) ==
    WithContents(IF /\ request.isClaudeThinkingModel
                    /\ request.tools # 0
                    /\ Len(heap[request.tools].elems) > 0
                 THEN WithHint(system.heap, system.ref)
                 ELSE system,
                 heap[request.messages].elems[1], request)

\* convertAnthropicToGoogle(anthropicRequest) on the heap.
ConvertOnHeap(heap, request) ==
    WithSystem(SystemInstruction(heap, request.system), heap, request)

\* The request is converted: what was there before is kept for comparison.
Converted(m, r) ==
    [m EXCEPT !.phase = "done", !.before = m.heap,
              !.heap = r.heap, !.googleRequest = r.googleRequest]

NoRequest ==
    [system |-> [kind |-> "absent", text |-> "", ref |-> 0], messages |-> 0,
     tools |-> 0, isClaudeModel |-> FALSE, isClaudeThinkingModel |-> FALSE]

IdleMem ==
    [phase |-> "idle", heap |-> <<>>, request |-> NoRequest, before |-> <<>>,
     googleRequest |-> [systemInstruction |-> 0, contents |-> <<>>, tools |-> 0]]

(***************************************************************************)
(* Concurrent requests on the account table. A request is a task that      *)
(* picks an account (clearExpiredRateLimits, then a touch of the account    *)
(* picked), awaits upstream, and then marks the account rate-limited or    *)
(* invalid or leaves it alone. A task runs without interruption between    *)
(* two awaits, and updateAccount is one synchronous UPDATE statement.      *)
(***************************************************************************)
Requests == {1, 2}
MaxRounds == 2
MaxTicks == 1
TickMs == DEFAULT_COOLDOWN_MS

\* What was last written to a row: the rate-limit fields, which are written
\* together, is_invalid and last_used.
Written(row) ==
    [limited |-> <<row.is_rate_limited, row.rate_limit_reset_time>>,
     is_invalid |-> row.is_invalid, last_used |-> row.last_used]

IdleRace ==
    [pc |-> [p \in Requests |-> "idle"], account |-> [p \in Requests |-> 0],
     rounds |-> [p \in Requests |-> 0], ticks |-> 0, overlap |-> FALSE,
     lastWrite |-> <<>>]

(***************************************************************************)
(* The streaming response of POST /v1/messages: AnthropicInput             *)
(* (handleRequest, sendStreamResponse) and the route of server.js. The     *)
(* generator is the one CloudCodeOutput.sendMessageStream returns; its     *)
(* body runs only when the for-await asks it for its first event.          *)
(***************************************************************************)
MaxEvents == 3          \* events the generator yields in one response

\* new ApiError(400, 'messages is required and must be an array', ...)
ErrInvalidRequest == [kind |-> "invalid_request", mark |-> FALSE, status |-> 400]
\* `API error 403: ${errorText}` with an errorText that speaks of 'Auth'
ErrApiAuth == Err("api_auth", FALSE)

\* The errors that leave sendMessageStream.
StreamErrors ==
    {ErrMaxRetries, ErrNoAccounts, ErrResourceExhausted, ErrApi(FALSE), ErrApiAuth,
     ErrNetwork}
\* The types of the events the generator yields.
EventTypes == {"message_start", "content_block_delta", "message_stop"}
Routes == {"AnthropicInput", "server"}

\* res: headersSent, statusCode (0: not set), body (the JSON document sent, if
\* one was), written (the types of the SSE events written, 'error' included),
\* ended. candidates, ci: the candidate loop of the server.js route.
\* clientGone: the client has closed the connection; readAfterClose: the
\* events taken from the generator, and so from upstream, since then.
IdleHttp ==
    [pc |-> "idle", route |-> "AnthropicInput", candidates |-> 1, ci |-> 1,
     headersSent |-> FALSE, statusCode |-> 0, body |-> "none", written |-> <<>>,
     ended |-> FALSE, error |-> NoError, clientGone |-> FALSE, readAfterClose |-> 0]

\* formatError(error).statusCode: error.status || 500, 401 for a message with
\* '401' or 'Auth', 429 for one with 'Rate limit' or '429'.
formatError(e) ==
    IF e.kind = "api_auth" THEN 401
    ELSE IF e.kind \in {"resource_exhausted", "rate_limited"} THEN 429
    ELSE IF e.status # 0 THEN e.status
    ELSE 500

\* res.status(statusCode).json({ type: 'error', error: ... })
sendErrorResponse(h, e) ==
    [h EXCEPT !.pc = "done", !.headersSent = TRUE, !.statusCode = formatError(e),
              !.body = "error", !.ended = TRUE, !.error = e]

\* res.setHeader(...) four times; if (res.flushHeaders) res.flushHeaders()
FlushHeaders(h) ==
    [h EXCEPT !.pc = "iterate", !.headersSent = TRUE, !.statusCode = 200]

\* res.write(`event: error ...`); res.end()
WriteErrorOnly(h, e) ==
    [h EXCEPT !.pc = "done", !.written = Append(@, "error"), !.error = e]
WriteErrorEvent(h, e) ==
    [h EXCEPT !.pc = "done", !.written = Append(@, "error"), !.ended = TRUE,
              !.error = e]

\* The catch of sendStreamResponse.
StreamCatch(h, e) ==
    IF ~h.headersSent THEN sendErrorResponse(h, e) ELSE WriteErrorEvent(h, e)

\* catch (streamError) of the server.js route: a rate-limit error with a
\* candidate left goes on to that candidate unless the headers are out.
ServerStreamCatch(h, e) ==
    IF AggregatorIsRateLimitError(e) /\ h.ci < h.candidates
    THEN IF h.headersSent
         THEN WriteErrorEvent(h, e)
         ELSE FlushHeaders([h EXCEPT !.ci = h.ci + 1])
    ELSE WriteErrorEvent(h, e)

(***************************************************************************)
(* The request path: AnthropicInput.handleRequest -> Orchestrator.handle   *)
(* -> CloudCodeOutput.send -> sendMessage / sendMessageStream.             *)
(*                                                                         *)
(* The model follows one request from its arrival to its response. req.pc *)
(* is the await the request is suspended at:                               *)
(*   idle         the request has not arrived                              *)
(*   attempt      the head of the retry loop                               *)
(*   sleepSticky  await sleep(waitMs)                                      *)
(*   sleepAll     await sleep(allWaitMs) in handleAllRateLimited           *)
(*   token        await getTokenForAccount(account)                        *)
(*   fetch        await fetch(url) for endpoint req.endpoint               *)
(*   done         the response has been written to the client              *)
(***************************************************************************)
Models == {"m1", "m2"}
\* What ModelAggregator.resolve returns: a plain model, or the alias [m1, m2].
CandidateLists == {<<"m1">>, <<"m1", "m2">>}
\* ANTIGRAVITY_ENDPOINT_FALLBACKS.length
NumEndpoints == 2

\* History: statuses, the HTTP statuses upstream answered in the attempt under
\* way (0: the fetch failed); unauth, the account of an attempt that got 401 on
\* every endpoint, kept until the next upstream request is sent.
\* lastError of the endpoint loop: null, { is429, resetMs }, or an Error.
\* hinted: resetMs is a number (0 included) and not null.
NoLastError == [is429 |-> FALSE, resetMs |-> NULL, hinted |-> FALSE, error |-> NoError]

\* History: the markRateLimited(account, resetMs) call of the request at time
\* at, kept until the next upstream request is sent; other: another account
\* was available at the call; picked: pickStickyAccount was called since.
NoMark ==
    [account |-> 0, at |-> 0, resetMs |-> NULL, hinted |-> FALSE, other |-> FALSE,
     picked |-> FALSE]

\* History: pickStickyAccount has been called.
NotePick(r) ==
    IF r.marked.account # 0 THEN [r EXCEPT !.marked.picked = TRUE] ELSE r

IdleReq ==
    [pc |-> "idle", stream |-> FALSE, candidates |-> <<"m1">>, ci |-> 1,
     attempt |-> 0, maxAttempts |-> 0, account |-> 0, endpoint |-> 1,
     lastError |-> NoLastError, waitMs |-> 0,
     asked |-> {}, other |-> {}, starts |-> 0,
     statuses |-> {}, unauth |-> 0, marked |-> NoMark,
     outcome |-> "none", error |-> NoError, thrown |-> NoError]

\* The head of sendMessage / sendMessageStream for candidate ci.
EnterSend(r, accts, ci) ==
    [r EXCEPT !.pc = "attempt", !.ci = ci, !.attempt = 0,
              !.maxAttempts = Max(MAX_RETRIES, Len(accts) + 1),
              !.account = 0, !.endpoint = 1, !.lastError = NoLastError,
              !.statuses = {}]

\* The response is written and the request is over.
Finish(r, outcome, e) ==
    [r EXCEPT !.pc = "done", !.outcome = outcome, !.error = e]

\* The catch of Orchestrator.handle: if (isRateLimit || error.status >= 500)
\* continue; otherwise throw error.
AlwaysFailover(e) == TRUE
ShouldFailover(e) == AggregatorIsRateLimitError(e) \/ e.status >= 500

\* An error leaves sendMessage / sendMessageStream.
\* Non-streaming: it is caught in Orchestrator.handle, which goes to the next
\* candidate on a rate-limit error or a status >= 500 and rethrows otherwise;
\* handleRequest answers an error with sendErrorResponse.
\* Streaming: send() returned the generator before its body ran, so
\* Orchestrator.handle has returned; the error is raised in the for-await of
\* sendStreamResponse, after flushHeaders, and is written as an error event.
\* thrown (history): the error the last adapter.send of Orchestrator.handle
\* rejected with.
Throw(r, accts, e) ==
    IF r.stream
    THEN Finish(r, "error_event", e)
    ELSE LET caught == [r EXCEPT !.thrown = e]
         IN  IF ShouldFailover(e)
             THEN IF r.ci < Len(r.candidates)
                  THEN EnterSend(caught, accts, r.ci + 1)
                  ELSE Finish(caught, "error_json", e)
             ELSE Finish(caught, "error_json", e)

\* continue of the retry loop
SameAttempt(r) ==
    [r EXCEPT !.pc = "attempt",
              !.account = 0, !.endpoint = 1, !.lastError = NoLastError,
              !.statuses = {}]
NextAttempt(r) ==
    [r EXCEPT !.pc = "attempt", !.attempt = r.attempt + 1,
              !.account = 0, !.endpoint = 1, !.lastError = NoLastError,
              !.statuses = {}]

\* The catch of the retry loop.
Catch(r, accts, e) ==
    IF isRateLimitError(e) \/ isAuthError(e)
    THEN NextAttempt(r)
    ELSE Throw(r, accts, e)

\* The account is chosen: on to getTokenForAccount.
Proceed(r, id) == [r EXCEPT !.pc = "token", !.account = id]

\* handleAllRateLimited: the wait, or 0 when it throws RESOURCE_EXHAUSTED.
\* minWait is the smallest positive remaining wait; Infinity if there is none.
AllWaitMs(accts, t) ==
    LET waits == {accts[i].rate_limit_reset_time - t : i \in
                    {j \in DOMAIN accts : /\ accts[j].rate_limit_reset_time # NULL
                                          /\ accts[j].rate_limit_reset_time - t > 0}}
    IN  IF waits = {}
        THEN MAX_WAIT_BEFORE_ERROR_MS + 1000
        ELSE CHOOSE w \in waits : \A v \in waits : w <= v

\* if (allWaitMs > MAX_WAIT_BEFORE_ERROR_MS) throw ...
NeverExceeds(allWaitMs) == FALSE
ExceedsCeiling(allWaitMs) == allWaitMs > MAX_WAIT_BEFORE_ERROR_MS

\* if (!account) { if (isAllRateLimited) ...; if (!account) throw ... }:
\* the request and table after it, up to the next await.
NoAccount(r, accts, t) ==
    IF isAllRateLimited(accts)
    THEN IF ExceedsCeiling(AllWaitMs(accts, t))
         THEN Throw(r, accts, ErrResourceExhausted)
         ELSE [r EXCEPT !.pc = "sleepAll", !.waitMs = AllWaitMs(accts, t)]
    ELSE Throw(r, accts, ErrNoAccounts)

\* The history of a pickStickyAccount call on rows accts at time t.
NoPick ==
    [n |-> 0, pre |-> <<>>, at |-> 0, account |-> 0, waitMs |-> 0, post |-> <<>>,
     prevAccount |-> 0, prevPost |-> <<>>]

RecordPick(accts, t, res) ==
    [n |-> Min(lastPick.n + 1, 2), pre |-> accts, at |-> t,
     account |-> res.account, waitMs |-> res.waitMs, post |-> res.accounts,
     prevAccount |-> lastPick.account, prevPost |-> lastPick.post]

\* What upstream can answer to one fetch. status 0: fetch rejected.
\* hinted, hint: the retry-after of a 429. mark: the error text holds a
\* rate-limit marker. body: whether the body of a 200 can be read to its end,
\* and, when it cannot, whether the stream broke before or after its first
\* content.
Responses ==
    {[status |-> 200, hinted |-> FALSE, hint |-> 0, mark |-> FALSE, body |-> b] :
        b \in {"ok", "cut_before", "cut_after"}}
    \cup {[status |-> 401, hinted |-> FALSE, hint |-> 0, mark |-> FALSE, body |-> "ok"]}
    \cup {[status |-> 429, hinted |-> TRUE, hint |-> h, mark |-> TRUE, body |-> "ok"] :
            h \in ResetHintMs}
    \cup {[status |-> 429, hinted |-> FALSE, hint |-> 0, mark |-> TRUE, body |-> "ok"]}
    \cup {[status |-> st, hinted |-> FALSE, hint |-> 0, mark |-> m, body |-> "ok"] :
            st \in {400, 500}, m \in BOOLEAN}
    \cup {[status |-> 0, hinted |-> FALSE, hint |-> 0, mark |-> FALSE, body |-> "ok"]}

\* parseResetTime(response, errorText): null without a retry-after header
parseResetTime(answer) == IF answer.hinted THEN answer.hint ELSE NULL

TokenOutcomes == {"ok", "refresh_failed", "no_token"}

(***************************************************************************)
(* Actions of the request path                                             *)
(***************************************************************************)
\* POST /v1/messages: handleRequest up to the head of the retry loop. With
\* stream the generator is handed to sendStreamResponse, which sends the headers
\* and starts to iterate it.
StartRequest ==
    /\ req.pc = "idle"
    /\ \E stream \in BOOLEAN, cands \in CandidateLists :
            req' = EnterSend([IdleReq EXCEPT !.stream = stream, !.candidates = cands],
                             accounts, 1)
    /\ UNCHANGED <<now, accounts, lastPick, conv, sse, resp, http, pipe,
                   tool, agg, trip, session, config, tok, rd, mem, race>>

\* The head of one iteration of the retry loop, up to its first await.
BeginAttempt ==
    /\ req.pc = "attempt"
    /\ IF req.attempt >= req.maxAttempts
       THEN /\ req' = Throw(req, accounts, ErrMaxRetries)
            /\ UNCHANGED <<accounts, lastPick>>
       ELSE LET res == pickStickyAccount(accounts, now)
            IN  /\ accounts' = res.accounts
                /\ lastPick' = RecordPick(accounts, now, res)
                /\ req' = NotePick(
                            IF res.account # 0
                            THEN Proceed(req, res.account)
                            ELSE IF res.waitMs > 0
                            THEN [req EXCEPT !.pc = "sleepSticky", !.waitMs = res.waitMs]
                            ELSE NoAccount(req, res.accounts, now))
    /\ UNCHANGED <<now, conv, sse, resp, http, pipe,
                   tool, agg, trip, session, config, tok, rd, mem, race>>

\* sleep(waitMs) is over: account = pickNext(userId)
WakeSticky ==
    /\ req.pc = "sleepSticky"
    /\ now' = now + req.waitMs
    /\ LET res == pickStickyAccount(accounts, now')
       IN  /\ accounts' = res.accounts
           /\ lastPick' = RecordPick(accounts, now', res)
           /\ req' = NotePick(
                        IF res.account # 0
                        THEN Proceed(req, res.account)
                        ELSE NoAccount(req, res.accounts, now'))
    /\ UNCHANGED <<conv, sse, resp, http, pipe,
                   tool, agg, trip, session, config, tok, rd, mem, race>>

\* The sleep of handleAllRateLimited is over: account = pickNext(userId)
WakeAll ==
    /\ req.pc = "sleepAll"
    /\ now' = now + req.waitMs
    /\ LET res == pickStickyAccount(accounts, now')
       IN  /\ accounts' = res.accounts
           /\ lastPick' = RecordPick(accounts, now', res)
           /\ req' = NotePick(
                        IF res.account # 0
                        THEN Proceed(req, res.account)
                        ELSE Throw(req, res.accounts, ErrNoAccounts))
    /\ UNCHANGED <<conv, sse, resp, http, pipe,
                   tool, agg, trip, session, config, tok, rd, mem, race>>

\* getTokenForAccount and getProjectForAccount settle.
GetToken ==
    /\ req.pc = "token"
    /\ \E outcome \in TokenOutcomes :
         CASE outcome = "ok" ->
                /\ req' = [req EXCEPT !.pc = "fetch", !.endpoint = 1,
                                      !.lastError = NoLastError]
                /\ UNCHANGED accounts
           [] outcome = "refresh_failed" ->
                /\ accounts' = markInvalid(accounts, req.account)
                /\ req' = Catch(req, accounts', ErrAuthInvalid)
           [] outcome = "no_token" ->
                /\ req' = Catch(req, accounts, Err("no_token", FALSE))
                /\ UNCHANGED accounts
    /\ UNCHANGED <<now, lastPick, conv, sse, resp, http, pipe,
                   tool, agg, trip, session, config, tok, rd, mem, race>>

\* lastError after a 429 with retry-after hint resetMs: the smallest hint wins.
Note429(le, resetMs, hinted) ==
    IF ~le.is429 \/ (resetMs # 0 /\ (le.resetMs = 0 \/ resetMs < le.resetMs))
    THEN [is429 |-> TRUE, resetMs |-> resetMs, hinted |-> hinted, error |-> NoError]
    ELSE le

NoteError(e) == [is429 |-> FALSE, resetMs |-> NULL, hinted |-> FALSE, error |-> e]

\* The endpoint loop goes on with lastError le; after the last endpoint the
\* account is marked on a 429 and the error is thrown into the catch of the retry
\* loop. With no lastError (a 401 at every endpoint) the loop just goes round.
\* [req, accounts] after it.
AfterEndpoint(r, accts, t, le) ==
    IF r.endpoint < NumEndpoints
    THEN [req |-> [r EXCEPT !.endpoint = r.endpoint + 1, !.lastError = le],
          accounts |-> accts]
    ELSE IF le = NoLastError
    THEN [req |-> NextAttempt([r EXCEPT !.unauth = r.account]),
          accounts |-> accts]
    ELSE IF le.is429
    THEN LET marked == markRateLimited(accts, r.account, le.resetMs, t)
             noted == [r EXCEPT !.marked =
                        [account |-> r.account, at |-> t, resetMs |-> le.resetMs,
                         hinted |-> le.hinted,
                         other |-> \E i \in DOMAIN accts :
                                    i # r.account /\ Available(accts[i]),
                         picked |-> FALSE]]
         IN  [req |-> Catch(noted, marked, ErrRateLimited(TRUE)), accounts |-> marked]
    ELSE [req |-> Catch(r, accts, le.error), accounts |-> accts]

\* fetch(url) for the current endpoint settles, and the response is handled up
\* to the next await.
Fetch ==
    /\ req.pc = "fetch"
    /\ \E answer \in Responses :
        LET model == req.candidates[req.ci]
            r == [req EXCEPT !.asked = @ \cup {<<model, req.account>>},
                             !.other = IF answer.status = 429 THEN @ ELSE @ \cup {model},
                             !.statuses = @ \cup {answer.status},
                             !.unauth = 0,
                             !.marked = NoMark]
            next ==
                CASE answer.status = 401 ->
                        AfterEndpoint(r, accounts, now, r.lastError)
                  [] answer.status = 429 ->
                        AfterEndpoint(r, accounts, now,
                                      Note429(r.lastError, parseResetTime(answer),
                                              answer.hinted))
                  [] answer.status \in {400, 500} ->
                        AfterEndpoint(r, accounts, now, NoteError(ErrApi(answer.mark)))
                  [] answer.status = 0 ->
                        AfterEndpoint(r, accounts, now, NoteError(ErrNetwork))
                  [] answer.status = 200 /\ answer.body = "ok" ->
                        [req |-> IF r.stream
                                 THEN Finish([r EXCEPT !.starts = Min(@ + 1, 2)],
                                             "stream_end", NoError)
                                 ELSE Finish(r, "json", NoError),
                         accounts |-> accounts]
                  [] answer.status = 200 /\ answer.body = "cut_before" ->
                        AfterEndpoint(r, accounts, now, NoteError(ErrNetwork))
                  [] answer.status = 200 /\ answer.body = "cut_after" ->
                        AfterEndpoint(
                            IF r.stream THEN [r EXCEPT !.starts = Min(@ + 1, 2)] ELSE r,
                            accounts, now, NoteError(ErrNetwork))
        IN  /\ req' = next.req
            /\ accounts' = next.accounts
    /\ UNCHANGED <<now, lastPick, conv, sse, resp, http, pipe,
                   tool, agg, trip, session, config, tok, rd, mem, race>>

\* The rows the user has when the request arrives: none to MaxAccounts of them,
\* never used, fresh or found invalid by an earlier verification.
InitialAccounts ==
    UNION {[1..n -> BOOLEAN] : n \in 0..MaxAccounts}

Init ==
    /\ now \in StartMs
    /\ \E inv \in InitialAccounts :
            accounts = [i \in DOMAIN inv |-> [NewAccount(i) EXCEPT !.is_invalid = inv[i]]]
    /\ req = IdleReq
    /\ lastPick = NoPick
    /\ conv = IdleConv
    /\ sse = IdleSse
    /\ resp = IdleResp
    /\ http = IdleHttp
    /\ pipe = IdlePipe
    /\ tool = IdleTool
    /\ agg = IdleAgg
    /\ trip = IdleTrip
    /\ session = IdleSession
    /\ config = IdleConfig
    /\ tok = IdleTok
    /\ rd = IdleRd
    /\ mem = IdleMem
    /\ race = IdleRace

Next ==
    \/ StartRequest
    \/ BeginAttempt
    \/ WakeSticky
    \/ WakeAll
    \/ GetToken
    \/ Fetch

Spec == Init /\ [][Next]_vars

\* Every await of the request settles: the sleeps return, the token refresh
\* and the upstream calls settle, and the code between two awaits runs.
\* At most one of them is awaited at a time.
Settles ==
    \/ BeginAttempt
    \/ WakeSticky
    \/ WakeAll
    \/ GetToken
    \/ Fetch

\* One call of sendMessage or sendMessageStream, for a model that is not an
\* alias, by a user with LiveAccounts rows that have not been used yet.
LiveAccounts == 2

StartCall ==
    /\ req.pc = "idle"
    /\ \E stream \in BOOLEAN :
            req' = EnterSend([IdleReq EXCEPT !.stream = stream], accounts, 1)
    /\ UNCHANGED <<now, accounts, lastPick, conv, sse, resp, http, pipe,
                   tool, agg, trip, session, config, tok, rd, mem, race>>

InitLive ==
    /\ now \in StartMs
    /\ accounts = [i \in 1..LiveAccounts |-> NewAccount(i)]
    /\ req = IdleReq
    /\ lastPick = NoPick
    /\ conv = IdleConv
    /\ sse = IdleSse
    /\ resp = IdleResp
    /\ http = IdleHttp
    /\ pipe = IdlePipe
    /\ tool = IdleTool
    /\ agg = IdleAgg
    /\ trip = IdleTrip
    /\ session = IdleSession
    /\ config = IdleConfig
    /\ tok = IdleTok
    /\ rd = IdleRd
    /\ mem = IdleMem
    /\ race = IdleRace

NextLive ==
    \/ StartCall
    \/ BeginAttempt
    \/ WakeSticky
    \/ WakeAll
    \/ GetToken
    \/ Fetch

SpecLive == InitLive /\ [][NextLive]_vars /\ WF_vars(Settles)

(***************************************************************************)
(* Actions of the converter: a client puts a request together, block by    *)
(* block, and the request is converted.                                    *)
(***************************************************************************)
AddMessage ==
    /\ conv.phase = "build"
    /\ Len(conv.messages) < MaxMessages
    /\ \E role \in {"user", "assistant"} :
            conv' = [conv EXCEPT !.messages = Append(@, [role |-> role, content |-> <<>>])]
    /\ UNCHANGED <<now, accounts, req, lastPick, sse, resp, http, pipe,
                   tool, agg, trip, session, config, tok, rd, mem, race>>

AddBlock ==
    /\ conv.phase = "build"
    /\ Len(conv.messages) > 0
    /\ NumBlocks(conv.messages) < MaxBlocks
    /\ \E block \in Blocks :
            conv' = [conv EXCEPT !.messages[Len(conv.messages)].content = Append(@, block)]
    /\ UNCHANGED <<now, accounts, req, lastPick, sse, resp, http, pipe,
                   tool, agg, trip, session, config, tok, rd, mem, race>>

Convert ==
    /\ conv.phase = "build"
    /\ conv' = [conv EXCEPT !.phase = "converted",
                            !.contents = convertAnthropicToGoogle(conv.messages,
                                                                  conv.isClaudeModel)]
    /\ UNCHANGED <<now, accounts, req, lastPick, sse, resp, http, pipe,
                   tool, agg, trip, session, config, tok, rd, mem, race>>

InitConvert ==
    /\ now = 0
    /\ accounts = <<>>
    /\ req = IdleReq
    /\ lastPick = NoPick
    /\ \E isClaudeModel \in BOOLEAN :
            conv = [IdleConv EXCEPT !.phase = "build", !.isClaudeModel = isClaudeModel]
    /\ sse = IdleSse
    /\ resp = IdleResp
    /\ http = IdleHttp
    /\ pipe = IdlePipe
    /\ tool = IdleTool
    /\ agg = IdleAgg
    /\ trip = IdleTrip
    /\ session = IdleSession
    /\ config = IdleConfig
    /\ tok = IdleTok
    /\ rd = IdleRd
    /\ mem = IdleMem
    /\ race = IdleRace

NextConvert ==
    \/ AddMessage
    \/ AddBlock
    \/ Convert

SpecConvert == InitConvert /\ [][NextConvert]_vars

(***************************************************************************)
(* Actions of the streaming reassembler. A step is one iteration of the    *)
(* loop over the parts of a frame (the generator is suspended at each of   *)
(* its yields anyway), the end of a frame, or the end of the stream. Once  *)
(* a frame is begun, nothing else happens before its end.                  *)
(***************************************************************************)
\* The next part of a frame is handled; before the first one, message_start is
\* emitted if it was not. A part that throws ends the frame on the spot: the
\* catch is outside the loop, and the finishReason is not looked at.
StreamPart ==
    /\ sse.phase = "reading"
    /\ sse.parts < MaxParts
    /\ sse.inFrame \/ sse.frames < MaxFrames
    /\ \E part \in StreamParts :
        LET begun == [(IF sse.inFrame THEN sse ELSE StartMessage(sse)) EXCEPT
                        !.inFrame = TRUE,
                        !.frames = IF sse.inFrame THEN @ ELSE @ + 1,
                        !.parts = @ + 1,
                        !.calls = @ \/ part.functionCall # UNDEFINED]
            after == OnPart(begun, part)
        IN  sse' = IF Throws(part)
                   THEN [begun EXCEPT !.inFrame = FALSE]
                   ELSE IF part.thought = TRUE
                   THEN [after EXCEPT !.received =
                            Append(@, [index |-> after.blockIndex,
                                       signature |-> part.thoughtSignature])]
                   ELSE after
    /\ UNCHANGED <<now, accounts, req, lastPick, conv, resp, http, pipe,
                   tool, agg, trip, session, config, tok, rd, mem, race>>

\* The parts of the frame are done, or it had none: its finishReason.
StreamFrameEnd ==
    /\ sse.phase = "reading"
    /\ sse.inFrame \/ sse.frames < MaxFrames
    /\ \E finishReason \in FinishReasons :
            sse' = [OnFinishReason(sse, finishReason) EXCEPT
                        !.inFrame = FALSE,
                        !.frames = IF sse.inFrame THEN @ ELSE @ + 1]
    /\ UNCHANGED <<now, accounts, req, lastPick, conv, resp, http, pipe,
                   tool, agg, trip, session, config, tok, rd, mem, race>>

\* reader.read() reports done.
StreamEnd ==
    /\ sse.phase = "reading"
    /\ ~sse.inFrame
    /\ sse' = [OnEnd(sse) EXCEPT !.phase = "done"]
    /\ UNCHANGED <<now, accounts, req, lastPick, conv, resp, http, pipe,
                   tool, agg, trip, session, config, tok, rd, mem, race>>

InitStream ==
    /\ now = 0
    /\ accounts = <<>>
    /\ req = IdleReq
    /\ lastPick = NoPick
    /\ conv = IdleConv
    /\ sse = [IdleSse EXCEPT !.phase = "reading"]
    /\ resp = IdleResp
    /\ http = IdleHttp
    /\ pipe = IdlePipe
    /\ tool = IdleTool
    /\ agg = IdleAgg
    /\ trip = IdleTrip
    /\ session = IdleSession
    /\ config = IdleConfig
    /\ tok = IdleTok
    /\ rd = IdleRd
    /\ mem = IdleMem
    /\ race = IdleRace

NextStream ==
    \/ StreamPart
    \/ StreamFrameEnd
    \/ StreamEnd

SpecStream == InitStream /\ [][NextStream]_vars

(***************************************************************************)
(* Actions of the response converter: upstream puts a response together,   *)
(* part by part, and the response is converted.                            *)
(***************************************************************************)
AddPart ==
    /\ resp.phase = "build"
    /\ Len(resp.parts) < MaxParts
    /\ \E part \in ResponseParts : resp' = [resp EXCEPT !.parts = Append(@, part)]
    /\ UNCHANGED <<now, accounts, req, lastPick, conv, sse, http, pipe,
                   tool, agg, trip, session, config, tok, rd, mem, race>>

ConvertResponse ==
    /\ resp.phase = "build"
    /\ resp' = [resp EXCEPT !.phase = "converted",
                            !.out = convertGoogleToAnthropic(resp.parts, resp.finishReason)]
    /\ UNCHANGED <<now, accounts, req, lastPick, conv, sse, http, pipe,
                   tool, agg, trip, session, config, tok, rd, mem, race>>

InitResponse ==
    /\ now = 0
    /\ accounts = <<>>
    /\ req = IdleReq
    /\ lastPick = NoPick
    /\ conv = IdleConv
    /\ sse = IdleSse
    /\ \E finishReason \in ResponseFinishReasons :
            resp = [IdleResp EXCEPT !.phase = "build", !.finishReason = finishReason]
    /\ http = IdleHttp
    /\ pipe = IdlePipe
    /\ tool = IdleTool
    /\ agg = IdleAgg
    /\ trip = IdleTrip
    /\ session = IdleSession
    /\ config = IdleConfig
    /\ tok = IdleTok
    /\ rd = IdleRd
    /\ mem = IdleMem
    /\ race = IdleRace

NextResponse ==
    \/ AddPart
    \/ ConvertResponse

SpecResponse == InitResponse /\ [][NextResponse]_vars

(***************************************************************************)
(* Actions of the streaming response: a streaming POST /v1/messages is     *)
(* answered, the generator yielding its events one by one, returning or    *)
(* throwing.                                                               *)
(***************************************************************************)
\* handleRequest / the server.js route up to the for-await: a request without a
\* messages array is answered with the 400 error; otherwise the headers are
\* set and flushed, and the iteration of the generator begins.
PostMessages ==
    /\ http.pc = "idle"
    /\ \E route \in Routes, valid \in BOOLEAN :
        \E n \in (IF route = "server" THEN 1..2 ELSE {1}) :
            LET h == [http EXCEPT !.route = route, !.candidates = n]
            IN  http' = IF valid THEN FlushHeaders(h)
                        ELSE sendErrorResponse(h, ErrInvalidRequest)
    /\ UNCHANGED <<now, accounts, req, lastPick, conv, sse, resp, pipe,
                   tool, agg, trip, session, config, tok, rd, mem, race>>

\* The generator yields an event: res.write(`event: ${event.type} ...`)
GeneratorYields ==
    /\ http.pc = "iterate"
    /\ Len(http.written) < MaxEvents
    /\ \E type \in EventTypes :
            http' = [http EXCEPT
                        !.written = Append(@, type),
                        !.readAfterClose = IF http.clientGone THEN @ + 1 ELSE @]
    /\ UNCHANGED <<now, accounts, req, lastPick, conv, sse, resp, pipe,
                   tool, agg, trip, session, config, tok, rd, mem, race>>

\* The client closes the connection while the response is streamed. Neither
\* route listens for it: the for-await goes on, and res.write on the closed
\* connection does not throw.
ClientDisconnects ==
    /\ http.pc = "iterate"
    /\ ~http.clientGone
    /\ http' = [http EXCEPT !.clientGone = TRUE]
    /\ UNCHANGED <<now, accounts, req, lastPick, conv, sse, resp, pipe,
                   tool, agg, trip, session, config, tok, rd, mem, race>>

\* The generator returns: res.end()
GeneratorReturns ==
    /\ http.pc = "iterate"
    /\ http' = [http EXCEPT !.pc = "done", !.ended = TRUE]
    /\ UNCHANGED <<now, accounts, req, lastPick, conv, sse, resp, pipe,
                   tool, agg, trip, session, config, tok, rd, mem, race>>

\* The generator throws: the catch around the for-await.
GeneratorThrows ==
    /\ http.pc = "iterate"
    /\ \E e \in StreamErrors :
            http' = IF http.route = "AnthropicInput"
                    THEN StreamCatch(http, e)
                    ELSE ServerStreamCatch(http, e)
    /\ UNCHANGED <<now, accounts, req, lastPick, conv, sse, resp, pipe,
                   tool, agg, trip, session, config, tok, rd, mem, race>>

InitSend ==
    /\ now = 0
    /\ accounts = <<>>
    /\ req = IdleReq
    /\ lastPick = NoPick
    /\ conv = IdleConv
    /\ sse = IdleSse
    /\ resp = IdleResp
    /\ http = IdleHttp
    /\ pipe = IdlePipe
    /\ tool = IdleTool
    /\ agg = IdleAgg
    /\ trip = IdleTrip
    /\ session = IdleSession
    /\ config = IdleConfig
    /\ tok = IdleTok
    /\ rd = IdleRd
    /\ mem = IdleMem
    /\ race = IdleRace

NextSend ==
    \/ PostMessages
    \/ GeneratorYields
    \/ ClientDisconnects
    \/ GeneratorReturns
    \/ GeneratorThrows

SpecSend == InitSend /\ [][NextSend]_vars

(***************************************************************************)
(* Actions of the assistant-message pipeline: a content array is put       *)
(* together block by block, and the pipeline functions are applied to it.  *)
(***************************************************************************)
AddPipelineBlock ==
    /\ pipe.phase = "build"
    /\ Len(pipe.content) < MaxBlocks
    /\ \E block \in PipelineBlocks : pipe' = [pipe EXCEPT !.content = Append(@, block)]
    /\ UNCHANGED <<now, accounts, req, lastPick, conv, sse, resp, http,
                   tool, agg, trip, session, config, tok, rd, mem, race>>

\* removeTrailingThinkingBlocks(content), reorderAssistantContent(content), and
\* the pipeline of an assistant message run on the content and run again on its
\* own result.
RunPipeline ==
    /\ pipe.phase = "build"
    /\ pipe' = [pipe EXCEPT
                    !.phase = "done",
                    !.trimmed = removeTrailingThinkingBlocks(pipe.content),
                    !.reordered = reorderAssistantContent(pipe.content),
                    !.once = AssistantPipeline(pipe.content),
                    !.twice = AssistantPipeline(AssistantPipeline(pipe.content))]
    /\ UNCHANGED <<now, accounts, req, lastPick, conv, sse, resp, http,
                   tool, agg, trip, session, config, tok, rd, mem, race>>

InitPipeline ==
    /\ now = 0
    /\ accounts = <<>>
    /\ req = IdleReq
    /\ lastPick = NoPick
    /\ conv = IdleConv
    /\ sse = IdleSse
    /\ resp = IdleResp
    /\ http = IdleHttp
    /\ pipe = [IdlePipe EXCEPT !.phase = "build"]
    /\ tool = IdleTool
    /\ agg = IdleAgg
    /\ trip = IdleTrip
    /\ session = IdleSession
    /\ config = IdleConfig
    /\ tok = IdleTok
    /\ rd = IdleRd
    /\ mem = IdleMem
    /\ race = IdleRace

NextPipeline ==
    \/ AddPipelineBlock
    \/ RunPipeline

SpecPipeline == InitPipeline /\ [][NextPipeline]_vars

(***************************************************************************)
(* Actions of the tool-schema sanitizer: an input schema is put together   *)
(* from the inside out, and sanitizeSchema is applied to it.               *)
(***************************************************************************)
NewSchema ==
    /\ tool.phase = "idle"
    /\ \E leaf \in LeafSchemas :
            tool' = [tool EXCEPT !.phase = "build", !.schema = leaf]
    /\ UNCHANGED <<now, accounts, req, lastPick, conv, sse, resp, http, pipe,
                   agg, trip, session, config, tok, rd, mem, race>>

\* The schema so far becomes the property, the items or the one element of the
\* items array of a new schema.
WrapSchema ==
    /\ tool.phase = "build"
    /\ tool.depth < MaxDepth
    /\ \E type \in SchemaTypes \cup {""}, under \in {"properties", "items", "itemsArray"} :
            tool' = [tool EXCEPT
                !.depth = @ + 1,
                !.schema =
                    Schema(type,
                           IF under = "properties" THEN PropertyMap(<<tool.schema>>)
                           ELSE Absent,
                           IF under = "items" THEN tool.schema
                           ELSE IF under = "itemsArray" THEN JsArray(<<tool.schema>>)
                           ELSE Absent,
                           FALSE, FALSE, FALSE, FALSE)]
    /\ UNCHANGED <<now, accounts, req, lastPick, conv, sse, resp, http, pipe,
                   agg, trip, session, config, tok, rd, mem, race>>

\* parameters: sanitizeSchema(schema)
SanitizeTool ==
    /\ tool.phase = "build"
    /\ tool' = [tool EXCEPT !.phase = "done", !.sanitized = sanitizeSchema(tool.schema)]
    /\ UNCHANGED <<now, accounts, req, lastPick, conv, sse, resp, http, pipe,
                   agg, trip, session, config, tok, rd, mem, race>>

InitTool ==
    /\ now = 0
    /\ accounts = <<>>
    /\ req = IdleReq
    /\ lastPick = NoPick
    /\ conv = IdleConv
    /\ sse = IdleSse
    /\ resp = IdleResp
    /\ http = IdleHttp
    /\ pipe = IdlePipe
    /\ tool = IdleTool
    /\ agg = IdleAgg
    /\ trip = IdleTrip
    /\ session = IdleSession
    /\ config = IdleConfig
    /\ tok = IdleTok
    /\ rd = IdleRd
    /\ mem = IdleMem
    /\ race = IdleRace

NextTool ==
    \/ NewSchema
    \/ WrapSchema
    \/ SanitizeTool

SpecTool == InitTool /\ [][NextTool]_vars

(***************************************************************************)
(* Actions of the model aggregator: a group is stored for the alias, rows  *)
(* are added to it, and the alias is resolved.                             *)
(***************************************************************************)
CreateModelGroup ==
    /\ agg.phase = "idle"
    /\ ~agg.exists
    /\ \E strategy \in Strategies :
            agg' = [agg EXCEPT !.exists = TRUE, !.strategy = strategy]
    /\ UNCHANGED <<now, accounts, req, lastPick, conv, sse, resp, http, pipe,
                   tool, trip, session, config, tok, rd, mem, race>>

addModelToGroup ==
    /\ agg.phase = "idle"
    /\ agg.exists
    /\ Len(agg.rows) < MaxItems
    /\ \E modelName \in Models, orderIndex \in 0..MaxOrderIndex :
            agg' = [agg EXCEPT !.rows = Append(@, GroupItem(modelName, orderIndex))]
    /\ UNCHANGED <<now, accounts, req, lastPick, conv, sse, resp, http, pipe,
                   tool, trip, session, config, tok, rd, mem, race>>

Resolve ==
    /\ agg.phase = "idle"
    /\ \E js \in Draws(Len(agg.rows)) :
            agg' = [agg EXCEPT
                        !.phase = "done",
                        !.read = agg.rows,
                        !.candidates = resolve("alias", agg.exists, agg.strategy,
                                               getModelGroup(agg.rows), js)]
    /\ UNCHANGED <<now, accounts, req, lastPick, conv, sse, resp, http, pipe,
                   tool, trip, session, config, tok, rd, mem, race>>

InitAgg ==
    /\ now = 0
    /\ accounts = <<>>
    /\ req = IdleReq
    /\ lastPick = NoPick
    /\ conv = IdleConv
    /\ sse = IdleSse
    /\ resp = IdleResp
    /\ http = IdleHttp
    /\ pipe = IdlePipe
    /\ tool = IdleTool
    /\ agg = IdleAgg
    /\ trip = IdleTrip
    /\ session = IdleSession
    /\ config = IdleConfig
    /\ tok = IdleTok
    /\ rd = IdleRd
    /\ mem = IdleMem
    /\ race = IdleRace

NextAgg ==
    \/ CreateModelGroup
    \/ addModelToGroup
    \/ Resolve

SpecAgg == InitAgg /\ [][NextAgg]_vars

(***************************************************************************)
(* Actions of the round trip: a message of text and tool_use blocks is put *)
(* together, converted to parts, and the parts are converted back.         *)
(***************************************************************************)
AddTripBlock ==
    /\ trip.phase = "build"
    /\ Len(trip.content) < MaxBlocks
    /\ \E block \in TripBlocks : trip' = [trip EXCEPT !.content = Append(@, block)]
    /\ UNCHANGED <<now, accounts, req, lastPick, conv, sse, resp, http, pipe,
                   tool, agg, session, config, tok, rd, mem, race>>

RoundTrip ==
    /\ trip.phase = "build"
    /\ \E isClaudeModel \in BOOLEAN :
        LET parts == PartsOfContent(trip.content, isClaudeModel)
        IN  trip' = [trip EXCEPT !.phase = "done", !.isClaudeModel = isClaudeModel,
                                 !.parts = parts, !.back = ContentOfResponse(parts)]
    /\ UNCHANGED <<now, accounts, req, lastPick, conv, sse, resp, http, pipe,
                   tool, agg, session, config, tok, rd, mem, race>>

InitTrip ==
    /\ now = 0
    /\ accounts = <<>>
    /\ req = IdleReq
    /\ lastPick = NoPick
    /\ conv = IdleConv
    /\ sse = IdleSse
    /\ resp = IdleResp
    /\ http = IdleHttp
    /\ pipe = IdlePipe
    /\ tool = IdleTool
    /\ agg = IdleAgg
    /\ trip = [IdleTrip EXCEPT !.phase = "build"]
    /\ session = IdleSession
    /\ config = IdleConfig
    /\ tok = IdleTok
    /\ rd = IdleRd
    /\ mem = IdleMem
    /\ race = IdleRace

NextTrip ==
    \/ AddTripBlock
    \/ RoundTrip

SpecTrip == InitTrip /\ [][NextTrip]_vars

(***************************************************************************)
(* Actions of the session id: two requests are put together, message by    *)
(* message, and each is given its session id.                              *)
(***************************************************************************)
AddTurnToFirst ==
    /\ session.phase = "build"
    /\ session.second = <<>>
    /\ Len(session.first) < MaxTurns
    /\ \E turn \in Turns : session' = [session EXCEPT !.first = Append(@, turn)]
    /\ UNCHANGED <<now, accounts, req, lastPick, conv, sse, resp, http, pipe,
                   tool, agg, trip, config, tok, rd, mem, race>>

AddTurnToSecond ==
    /\ session.phase = "build"
    /\ Len(session.second) < MaxTurns
    /\ \E turn \in Turns : session' = [session EXCEPT !.second = Append(@, turn)]
    /\ UNCHANGED <<now, accounts, req, lastPick, conv, sse, resp, http, pipe,
                   tool, agg, trip, config, tok, rd, mem, race>>

\* googleRequest.sessionId = this.deriveSessionId(anthropicRequest), for each
\* of the two requests
DeriveSessionIds ==
    /\ session.phase = "build"
    /\ \E model \in Models, uuid \in RandomUUIDs :
            session' = [session EXCEPT
                            !.phase = "done",
                            !.models = <<"m1", model>>,
                            !.ids = <<deriveSessionId(session.first, "uuid:1"),
                                      deriveSessionId(session.second, uuid)>>]
    /\ UNCHANGED <<now, accounts, req, lastPick, conv, sse, resp, http, pipe,
                   tool, agg, trip, config, tok, rd, mem, race>>

InitSession ==
    /\ now = 0
    /\ accounts = <<>>
    /\ req = IdleReq
    /\ lastPick = NoPick
    /\ conv = IdleConv
    /\ sse = IdleSse
    /\ resp = IdleResp
    /\ http = IdleHttp
    /\ pipe = IdlePipe
    /\ tool = IdleTool
    /\ agg = IdleAgg
    /\ trip = IdleTrip
    /\ session = [IdleSession EXCEPT !.phase = "build"]
    /\ config = IdleConfig
    /\ tok = IdleTok
    /\ rd = IdleRd
    /\ mem = IdleMem
    /\ race = IdleRace

NextSession ==
    \/ AddTurnToFirst
    \/ AddTurnToSecond
    \/ DeriveSessionIds

SpecSession == InitSession /\ [][NextSession]_vars

(***************************************************************************)
(* Actions of the generation config: a request arrives with its max_tokens *)
(* and thinking budget, and is converted.                                  *)
(***************************************************************************)
ReceiveConfig ==
    /\ config.phase = "idle"
    /\ \E max_tokens \in MaxTokensValues, budget_tokens \in BudgetTokensValues,
          isClaudeThinkingModel \in BOOLEAN :
            config' = [config EXCEPT !.phase = "received",
                                     !.max_tokens = max_tokens,
                                     !.budget_tokens = budget_tokens,
                                     !.isClaudeThinkingModel = isClaudeThinkingModel]
    /\ UNCHANGED <<now, accounts, req, lastPick, conv, sse, resp, http, pipe,
                   tool, agg, trip, session, tok, rd, mem, race>>

ConvertConfig ==
    /\ config.phase = "received"
    /\ config' = [config EXCEPT
                    !.phase = "done",
                    !.generationConfig =
                        generationConfig(config.max_tokens, config.budget_tokens,
                                         config.isClaudeThinkingModel)]
    /\ UNCHANGED <<now, accounts, req, lastPick, conv, sse, resp, http, pipe,
                   tool, agg, trip, session, tok, rd, mem, race>>

InitConfig ==
    /\ now = 0
    /\ accounts = <<>>
    /\ req = IdleReq
    /\ lastPick = NoPick
    /\ conv = IdleConv
    /\ sse = IdleSse
    /\ resp = IdleResp
    /\ http = IdleHttp
    /\ pipe = IdlePipe
    /\ tool = IdleTool
    /\ agg = IdleAgg
    /\ trip = IdleTrip
    /\ session = IdleSession
    /\ config = IdleConfig
    /\ tok = IdleTok
    /\ rd = IdleRd
    /\ mem = IdleMem
    /\ race = IdleRace

NextConfig ==
    \/ ReceiveConfig
    \/ ConvertConfig

SpecConfig == InitConfig /\ [][NextConfig]_vars

(***************************************************************************)
(* Actions of the token cache: time passes, and getTokenForAccount is      *)
(* called for the account.                                                 *)
(***************************************************************************)
\* Time passes between two calls.
TokenTimePasses ==
    /\ tok.phase = "ready"
    /\ tok.t < MaxTokenCalls * TokenTickMs
    /\ tok' = [tok EXCEPT !.t = tok.t + TokenTickMs]
    /\ UNCHANGED <<now, accounts, req, lastPick, conv, sse, resp, http, pipe,
                   tool, agg, trip, session, config, rd, mem, race>>

\* One call of getTokenForAccount for the account.
GetTokenForAccount ==
    /\ tok.phase = "ready"
    /\ tok.calls < MaxTokenCalls
    /\ \E outcome \in RefreshOutcomes :
         LET newToken == IF tok.calls = 0 THEN "ya29.a" ELSE "ya29.b"
             r == getTokenForAccount(tok.account, tok.cache, tok.t, outcome, newToken)
         IN  tok' = [tok EXCEPT !.account = r.account, !.cache = r.cache,
                                !.calls = tok.calls + 1,
                                !.last = [cached |-> tok.cache, at |-> tok.t,
                                          account |-> tok.account,
                                          refreshes |-> r.refreshes,
                                          outcome |-> IF r.refreshes = 0 THEN ""
                                                      ELSE outcome,
                                          result |-> r.result, error |-> r.error]]
    /\ UNCHANGED <<now, accounts, req, lastPick, conv, sse, resp, http, pipe,
                   tool, agg, trip, session, config, rd, mem, race>>

InitTok ==
    /\ now = 0
    /\ accounts = <<>>
    /\ req = IdleReq
    /\ lastPick = NoPick
    /\ conv = IdleConv
    /\ sse = IdleSse
    /\ resp = IdleResp
    /\ http = IdleHttp
    /\ pipe = IdlePipe
    /\ tool = IdleTool
    /\ agg = IdleAgg
    /\ trip = IdleTrip
    /\ session = IdleSession
    /\ config = IdleConfig
    /\ rd = IdleRd
    /\ mem = IdleMem
    /\ race = IdleRace
    /\ \E source \in AccountSources, refresh_token \in BOOLEAN,
          access_token \in {"", "ya29.old"}, is_invalid \in BOOLEAN :
         tok = [IdleTok EXCEPT !.phase = "ready",
                               !.account = [source |-> source,
                                            refresh_token |-> refresh_token,
                                            access_token |-> access_token,
                                            is_invalid |-> is_invalid,
                                            invalid_reason |->
                                                IF is_invalid THEN "invalid_grant"
                                                ELSE ""]]

NextTok == TokenTimePasses \/ GetTokenForAccount

SpecTok == InitTok /\ [][NextTok]_vars

(***************************************************************************)
(* Actions of the read loop: upstream writes a text of lines, and the      *)
(* reader hands it over in chunks of any size.                             *)
(***************************************************************************)
\* Upstream adds a line to the text it will send.
AddLine ==
    /\ rd.phase = "write"
    /\ Len(rd.lines) < MaxLines
    /\ \E line \in Lines : rd' = [rd EXCEPT !.lines = Append(@, line)]
    /\ UNCHANGED <<now, accounts, req, lastPick, conv, sse, resp, http, pipe,
                   tool, agg, trip, session, config, tok, mem, race>>

\* The text is complete, with or without a newline after its last line, and
\* streamSSEResponse starts to read.
StartReading ==
    /\ rd.phase = "write"
    /\ \E terminated \in BOOLEAN :
            rd' = [rd EXCEPT !.phase = "reading", !.terminated = terminated]
    /\ UNCHANGED <<now, accounts, req, lastPick, conv, sse, resp, http, pipe,
                   tool, agg, trip, session, config, tok, mem, race>>

\* reader.read() settles with the next chunk, of any length.
ReadChunk ==
    /\ rd.phase = "reading"
    /\ LET text == TextOf(rd.lines, rd.terminated)
       IN  \E n \in 1..(Len(text) - rd.read) :
            LET r == OnChunk(rd.buffer, rd.loc, SubSeq(text, rd.read + 1, rd.read + n))
            IN  rd' = [rd EXCEPT !.read = rd.read + n,
                                 !.inside = @ \/ text[rd.read + n].half = 1,
                                 !.buffer = r.buffer, !.loc = r.loc]
    /\ UNCHANGED <<now, accounts, req, lastPick, conv, sse, resp, http, pipe,
                   tool, agg, trip, session, config, tok, mem, race>>

\* reader.read() settles with done: the tail of streamSSEResponse.
ReadDone ==
    /\ rd.phase = "reading"
    /\ rd.read = Len(TextOf(rd.lines, rd.terminated))
    /\ rd' = [rd EXCEPT !.phase = "done", !.loc.st = OnEnd(rd.loc.st)]
    /\ UNCHANGED <<now, accounts, req, lastPick, conv, sse, resp, http, pipe,
                   tool, agg, trip, session, config, tok, mem, race>>

InitRead ==
    /\ now = 0
    /\ accounts = <<>>
    /\ req = IdleReq
    /\ lastPick = NoPick
    /\ conv = IdleConv
    /\ sse = IdleSse
    /\ resp = IdleResp
    /\ http = IdleHttp
    /\ pipe = IdlePipe
    /\ tool = IdleTool
    /\ agg = IdleAgg
    /\ trip = IdleTrip
    /\ session = IdleSession
    /\ config = IdleConfig
    /\ tok = IdleTok
    /\ rd = [IdleRd EXCEPT !.phase = "write"]
    /\ mem = IdleMem
    /\ race = IdleRace

NextRead ==
    \/ AddLine
    \/ StartReading
    \/ ReadChunk
    \/ ReadDone

SpecRead == InitRead /\ [][NextRead]_vars

(***************************************************************************)
(* Actions of the conversion on the heap: a client puts a request of one   *)
(* message together, the system blocks first and then the blocks of the    *)
(* message, and the request is converted.                                  *)
(***************************************************************************)
SystemBlocks == {TextBlock("sys"), Plain("image", UNDEFINED)}
ContentBlocks ==
    {TextBlock("hi"), TextBlock(" "), ToolUseBlock("get_weather"), RedactedThinkingBlock,
     ThinkingBlock("t", NoSig, FALSE), ThinkingBlock("t", [id |-> "s2", len |-> 50], TRUE)}

\* A block is added to the system array of the request.
AddSystemBlock ==
    /\ mem.phase = "system"
    /\ mem.request.system.kind = "array"
    /\ Len(mem.heap[mem.request.system.ref].elems) < MaxSystem
    /\ \E block \in SystemBlocks :
            mem' = [mem EXCEPT !.heap = PushNew(mem.heap, mem.request.system.ref, block)]
    /\ UNCHANGED <<now, accounts, req, lastPick, conv, sse, resp, http, pipe,
                   tool, agg, trip, session, config, tok, rd, race>>

\* A block is added to the content array of the message.
AddContentBlock ==
    /\ mem.phase \in {"system", "content"}
    /\ LET content == mem.heap[mem.heap[mem.request.messages].elems[1]].elems[1]
       IN  /\ Len(mem.heap[content].elems) < MaxBlocks
           /\ \E block \in ContentBlocks :
                mem' = [mem EXCEPT !.phase = "content",
                                   !.heap = PushNew(mem.heap, content, block)]
    /\ UNCHANGED <<now, accounts, req, lastPick, conv, sse, resp, http, pipe,
                   tool, agg, trip, session, config, tok, rd, race>>

\* convertAnthropicToGoogle(anthropicRequest)
ConvertRequest ==
    /\ mem.phase \in {"system", "content"}
    /\ mem' = Converted(mem, ConvertOnHeap(mem.heap, mem.request))
    /\ UNCHANGED <<now, accounts, req, lastPick, conv, sse, resp, http, pipe,
                   tool, agg, trip, session, config, tok, rd, race>>

\* The requests before their blocks are added: a message of the user or the
\* assistant with an empty content array, system absent, a string or an empty
\* array, no tool or one with its schema, for a Claude thinking model or a
\* Gemini model.
InitialRequests ==
    {LET messages == <<Cell(NewArray.value, <<2>>), Cell(Plain(role, UNDEFINED), <<3>>),
                       NewArray>>
         tools == IF hasTools
                  THEN <<Cell(NewArray.value, <<5>>), Cell(Plain("tool", "get_weather"), <<6>>),
                         Cell(Item("object", UNDEFINED, UNDEFINED, NoSig, FALSE, NoSig,
                                   UNDEFINED, TRUE), <<>>)>>
                  ELSE <<>>
         systemArray == IF systemKind = "array" THEN <<NewArray>> ELSE <<>>
     IN  [heap |-> messages \o tools \o systemArray,
          request |-> [system |-> [kind |-> systemKind,
                                   text |-> IF systemKind = "string" THEN "sys" ELSE "",
                                   ref |-> IF systemKind = "array"
                                           THEN Len(messages \o tools) + 1 ELSE 0],
                       messages |-> 1,
                       tools |-> IF hasTools THEN 4 ELSE 0,
                       isClaudeModel |-> claude,
                       isClaudeThinkingModel |-> claude]] :
        role \in {"user", "assistant"}, hasTools \in BOOLEAN,
        systemKind \in {"absent", "string", "array"}, claude \in BOOLEAN}

InitMem ==
    /\ now = 0
    /\ accounts = <<>>
    /\ req = IdleReq
    /\ lastPick = NoPick
    /\ conv = IdleConv
    /\ sse = IdleSse
    /\ resp = IdleResp
    /\ http = IdleHttp
    /\ pipe = IdlePipe
    /\ tool = IdleTool
    /\ agg = IdleAgg
    /\ trip = IdleTrip
    /\ session = IdleSession
    /\ config = IdleConfig
    /\ tok = IdleTok
    /\ rd = IdleRd
    /\ race = IdleRace
    /\ \E initial \in InitialRequests :
            mem = [IdleMem EXCEPT !.phase = "system", !.heap = initial.heap,
                                  !.request = initial.request]

NextMem ==
    \/ AddSystemBlock
    \/ AddContentBlock
    \/ ConvertRequest

SpecMem == InitMem /\ [][NextMem]_vars

(***************************************************************************)
(* Actions of the concurrent requests                                      *)
(***************************************************************************)
\* Request p calls pickStickyAccount: the expired limits are cleared, and the
\* account returned is touched. Without an account the attempt is over.
RacePick(p) ==
    /\ race.pc[p] = "idle"
    /\ race.rounds[p] < MaxRounds
    /\ LET res == pickStickyAccount(accounts, now)
           expired(i) == /\ accounts[i].is_rate_limited
                         /\ accounts[i].rate_limit_reset_time # NULL
                         /\ accounts[i].rate_limit_reset_time <= now
       IN  /\ accounts' = res.accounts
           /\ race' = [race EXCEPT
                !.pc[p] = IF res.account # 0 THEN "await" ELSE "idle",
                !.account[p] = res.account,
                !.rounds[p] = @ + 1,
                !.lastWrite = [i \in DOMAIN accounts |->
                    [race.lastWrite[i] EXCEPT
                        !.limited = IF expired(i) THEN <<FALSE, NULL>> ELSE @,
                        !.last_used = IF i = res.account THEN now ELSE @]]]
    /\ UNCHANGED <<now, req, lastPick, conv, sse, resp, http, pipe,
                   tool, agg, trip, session, config, tok, rd, mem>>

\* Upstream answered request p with 429 on every endpoint: markRateLimited.
RaceRateLimited(p) ==
    /\ race.pc[p] = "await"
    /\ \E resetMs \in ResetHintMs :
        /\ accounts' = markRateLimited(accounts, race.account[p], resetMs, now)
        /\ race' = [race EXCEPT
                !.pc[p] = "idle",
                !.overlap = @ \/ \E q \in Requests \ {p} :
                                    race.pc[q] = "await" /\ race.account[q] = race.account[p],
                !.lastWrite[race.account[p]].limited =
                    <<TRUE, now + (IF resetMs # 0 THEN resetMs ELSE DEFAULT_COOLDOWN_MS)>>]
    /\ UNCHANGED <<now, req, lastPick, conv, sse, resp, http, pipe,
                   tool, agg, trip, session, config, tok, rd, mem>>

\* The token refresh of request p failed: markInvalid.
RaceInvalid(p) ==
    /\ race.pc[p] = "await"
    /\ accounts' = markInvalid(accounts, race.account[p])
    /\ race' = [race EXCEPT !.pc[p] = "idle",
                            !.lastWrite[race.account[p]].is_invalid = TRUE]
    /\ UNCHANGED <<now, req, lastPick, conv, sse, resp, http, pipe,
                   tool, agg, trip, session, config, tok, rd, mem>>

\* Upstream answered request p with 200.
RaceSucceeds(p) ==
    /\ race.pc[p] = "await"
    /\ race' = [race EXCEPT !.pc[p] = "idle"]
    /\ UNCHANGED <<now, accounts, req, lastPick, conv, sse, resp, http, pipe,
                   tool, agg, trip, session, config, tok, rd, mem>>

\* Time passes while the requests wait.
RaceTimePasses ==
    /\ race.ticks < MaxTicks
    /\ now' = now + TickMs
    /\ race' = [race EXCEPT !.ticks = @ + 1]
    /\ UNCHANGED <<accounts, req, lastPick, conv, sse, resp, http, pipe,
                   tool, agg, trip, session, config, tok, rd, mem>>

InitRace ==
    /\ now \in StartMs
    /\ accounts = [i \in 1..MaxAccounts |-> NewAccount(i)]
    /\ req = IdleReq
    /\ lastPick = NoPick
    /\ conv = IdleConv
    /\ sse = IdleSse
    /\ resp = IdleResp
    /\ http = IdleHttp
    /\ pipe = IdlePipe
    /\ tool = IdleTool
    /\ agg = IdleAgg
    /\ trip = IdleTrip
    /\ session = IdleSession
    /\ config = IdleConfig
    /\ tok = IdleTok
    /\ rd = IdleRd
    /\ mem = IdleMem
    /\ race = [IdleRace EXCEPT
                !.lastWrite = [i \in 1..MaxAccounts |-> Written(NewAccount(i))]]

NextRace ==
    \/ \E p \in Requests : RacePick(p)
    \/ \E p \in Requests : RaceRateLimited(p)
    \/ \E p \in Requests : RaceInvalid(p)
    \/ \E p \in Requests : RaceSucceeds(p)
    \/ RaceTimePasses

SpecRace == InitRace /\ [][NextRace]_vars

(***************************************************************************)
(* Properties of the request path and the account router                   *)
(***************************************************************************)
\* The request is non-streaming / streaming, to the alias [m1, m2], and over.
AliasDone(stream) ==
    /\ req.pc = "done"
    /\ req.stream = stream
    /\ req.candidates = <<"m1", "m2">>

\* An upstream request for model was sent.
Contacted(model) == \E i \in DOMAIN accounts : <<model, i>> \in req.asked

\* Upstream was asked for m1 on every account the user has, and every answer it
\* gave for m1 was a 429.
M1RateLimitedEverywhere ==
    /\ Len(accounts) > 0
    /\ \A i \in DOMAIN accounts : <<"m1", i>> \in req.asked
    /\ "m1" \notin req.other

\* C1: a non-streaming request to the alias [m1, m2] for which upstream answers
\* 429 for m1 on every account does not end before an upstream request for m2
\* has been sent.
C1_FailoverToSecondModel ==
    (AliasDone(FALSE) /\ M1RateLimitedEverywhere) => Contacted("m2")

\* C2: a streaming request to the alias [m1, m2] whose m1 stream fails with a
\* rate-limit error before any content event was emitted does not end with that
\* error sent to the client, and m2 has been tried.
C2_StreamFailoverToSecondModel ==
    (/\ AliasDone(TRUE)
     /\ Contacted("m1")
     /\ req.starts = 0
     /\ req.outcome # "stream_end")
    => (AggregatorIsRateLimitError(req.error)
            => req.outcome # "error_event" /\ Contacted("m2"))

\* a is the most recently used row of accts, and no other row is as recent.
MostRecentlyUsed(accts, a) ==
    \A i \in DOMAIN accts : i # a => accts[i].last_used < accts[a].last_used

\* The case of C9 in the last pickStickyAccount call: the most recently used
\* account a is rate-limited with w ms left, and b is the one available account.
StickyLimitedOtherAvailable(a, b, w) ==
    /\ lastPick.n > 0
    /\ a \in DOMAIN lastPick.pre /\ b \in DOMAIN lastPick.pre
    /\ MostRecentlyUsed(lastPick.pre, a)
    /\ lastPick.pre[a].is_rate_limited
    /\ lastPick.pre[a].rate_limit_reset_time # NULL
    /\ w = lastPick.pre[a].rate_limit_reset_time - lastPick.at
    /\ w > 0
    /\ \A i \in DOMAIN lastPick.pre : Available(lastPick.pre[i]) <=> i = b

\* The wait values the model can see: a reset time minus a clock reading.
PickWaits ==
    {lastPick.pre[i].rate_limit_reset_time - lastPick.at : i \in DOMAIN lastPick.pre}

\* C9: with the most recently used account A rate-limited with w ms left and
\* another account B available, pickStickyAccount returns { account: null,
\* waitMs: w } and writes no last_used when w <= 120000, and returns B with
\* waitMs 0 when w is above that ceiling.
C9_WaitWithinCeilingElseSwitch ==
    \A a, b \in DOMAIN lastPick.pre : \A w \in PickWaits :
        StickyLimitedOtherAvailable(a, b, w) =>
            /\ w <= 120000 =>
                    /\ lastPick.account = 0
                    /\ lastPick.waitMs = w
                    /\ \A i \in DOMAIN lastPick.pre :
                            lastPick.post[i].last_used = lastPick.pre[i].last_used
            /\ w > 120000 =>
                    /\ lastPick.account = b
                    /\ lastPick.waitMs = 0

\* C9 witness: the last call switched to B because A's wait of 150000 ms is
\* above the ceiling, and earlier in the same request the other branch was
\* taken: the request slept req.waitMs <= 120000 for A while B, unused to this
\* day, was available.
C9_BothBranchesTaken ==
    \E a, b \in DOMAIN lastPick.pre :
        /\ StickyLimitedOtherAvailable(a, b, 150000)
        /\ lastPick.account = b
        /\ lastPick.pre[b].last_used = NULL
        /\ req.waitMs > 0 /\ req.waitMs <= 120000

\* C10: two consecutive pickStickyAccount calls that both return an account,
\* with the rate-limit and invalid status of every row the same at the second
\* call as the first call left it, return the same account.
C10_StickyIsStable ==
    (/\ lastPick.n = 2
     /\ lastPick.prevAccount # 0
     /\ lastPick.account # 0
     /\ StatusOf(lastPick.pre) = StatusOf(lastPick.prevPost))
    => lastPick.account = lastPick.prevAccount

\* C10 witness: two such calls, the second with another available account to
\* choose.
C10_SecondPickHadAChoice ==
    /\ lastPick.n = 2
    /\ lastPick.prevAccount # 0
    /\ lastPick.account = lastPick.prevAccount
    /\ StatusOf(lastPick.pre) = StatusOf(lastPick.prevPost)
    /\ \E b \in DOMAIN lastPick.pre :
            b # lastPick.account /\ Available(lastPick.pre[b])

\* The reset time C11 gives the account of the last markRateLimited call: the
\* time of the call plus resetMs, or plus DEFAULT_COOLDOWN_MS when no resetMs
\* was passed.
CooldownEnd ==
    req.marked.at + (IF req.marked.hinted THEN req.marked.resetMs
                     ELSE DEFAULT_COOLDOWN_MS)

\* C11: a pickStickyAccount call that follows markRateLimited(account,
\* resetMs) does not return the account while the time is before the reset time
\* (the time of the marking plus resetMs, or plus DEFAULT_COOLDOWN_MS when
\* resetMs is absent), and at or after the reset time it clears the flag of
\* the account.
C11_CooldownUntilResetTime ==
    (req.marked.account # 0 /\ req.marked.picked) =>
        IF lastPick.at < CooldownEnd
        THEN lastPick.account # req.marked.account
        ELSE ~lastPick.post[req.marked.account].is_rate_limited

\* The request is at the first upstream request it sends after its account
\* got 429 on every endpoint, and another account of the user was available
\* when the account was marked and is available now.
FirstSendAfter429 ==
    /\ req.pc = "fetch"
    /\ req.marked.account # 0
    /\ req.marked.other
    /\ \E i \in DOMAIN accounts : i # req.marked.account /\ Available(accounts[i])

C13_UnauthorizedAccountIsDropped ==
    req.unauth # 0 =>
        /\ accounts[req.unauth].is_invalid
        /\ req.pc = "fetch" => req.account # req.unauth

\* C14: a non-streaming request to the alias [m1, m2] does not end on an
\* attempt for m1 that upstream answered with a 5xx status on every endpoint:
\* the next candidate is tried.
C14_FailoverOn5xx ==
    (AliasDone(FALSE) /\ req.statuses = {500}) => req.ci = Len(req.candidates)

\* C15: the request of a user without upstream account fails with 'No
\* accounts available for this user', not with a rate-limit-class error.
C15_NoAccountsError ==
    (req.pc = "done" /\ Len(accounts) = 0) =>
        /\ req.error = ErrNoAccounts
        /\ ~AggregatorIsRateLimitError(req.error)

\* The remaining waits of the rate-limited rows the last pickStickyAccount
\* call left, at the time of the call.
RemainingWaits ==
    {lastPick.post[i].rate_limit_reset_time - lastPick.at :
        i \in {j \in DOMAIN lastPick.post : lastPick.post[j].is_rate_limited}}

\* The last pickStickyAccount call left no account available, and the shortest
\* remaining wait is above the ceiling.
NothingWithinCeiling ==
    /\ lastPick.n > 0
    /\ \A i \in DOMAIN lastPick.post : ~Available(lastPick.post[i])
    /\ RemainingWaits # {}
    /\ \A w \in RemainingWaits : w > MAX_WAIT_BEFORE_ERROR_MS

\* C16: a request that sleeps for a rate-limited account, in the sticky wait or
\* in the wait for all accounts, sleeps at most MAX_WAIT_BEFORE_ERROR_MS; when
\* no account is available and the shortest remaining wait is above the
\* ceiling, the request does not sleep: sendMessage / sendMessageStream throws
\* (the request is over with the error, or Orchestrator.handle has entered the
\* next candidate).
C16_WaitsAreBounded ==
    /\ req.pc \in {"sleepSticky", "sleepAll"} =>
            req.waitMs > 0 /\ req.waitMs <= MAX_WAIT_BEFORE_ERROR_MS
    /\ NothingWithinCeiling =>
            \/ req.pc = "done" /\ req.error \in {ErrResourceExhausted, ErrNoAccounts}
            \/ req.pc = "attempt" /\ req.attempt = 0 /\ req.ci > 1

\* C16 witness: a request that slept (the last time for req.waitMs ms) has
\* ended with RESOURCE_EXHAUSTED at a pick that found every account
\* rate-limited for more than the ceiling.
C16_SleptThenGaveUp ==
    /\ NothingWithinCeiling
    /\ req.pc = "done"
    /\ req.error = ErrResourceExhausted
    /\ req.waitMs > 0
    /\ Len(accounts) = 2

\* C29: pickStickyAccount and pickNext never return an account whose
\* is_invalid or is_rate_limited flag is set in the rows the call read (the
\* rows after clearExpiredRateLimits).
C29_PickedAccountIsAvailable ==
    (lastPick.n > 0 /\ lastPick.account # 0) =>
        /\ lastPick.account \in DOMAIN lastPick.post
        /\ ~lastPick.post[lastPick.account].is_invalid
        /\ ~lastPick.post[lastPick.account].is_rate_limited

\* C29 witness: the call returned an account and passed over a more recently
\* used one that is invalid.
C29_PassedOverInvalidAccount ==
    /\ lastPick.n > 0
    /\ lastPick.account # 0
    /\ \E i \in DOMAIN lastPick.post :
            /\ i # lastPick.account
            /\ lastPick.post[i].is_invalid
            /\ lastPick.pre[i].last_used > lastPick.pre[lastPick.account].last_used

\* C30: when adapter.send rejects for a candidate with an error that is not
\* rate-limit-class and has no status >= 500, Orchestrator.handle rethrows
\* that error at once: the request is over with that error, and no candidate
\* after that one is tried.
C30_OtherErrorsAreRethrown ==
    (/\ ~req.stream
     /\ req.thrown # NoError
     /\ ~AggregatorIsRateLimitError(req.thrown)
     /\ ~(req.thrown.status >= 500))
    => /\ req.pc = "done"
       /\ req.outcome = "error_json"
       /\ req.error = req.thrown
       /\ (req.ci = 1 /\ Len(req.candidates) = 2) => ~Contacted("m2")

\* C30 witness: a request to the alias [m1, m2] ended at m1 with 'Max retries
\* exceeded' after upstream was asked for m1, and m2 was left untried.
C30_MaxRetriesAtFirstCandidate ==
    /\ AliasDone(FALSE)
    /\ req.thrown = ErrMaxRetries
    /\ req.error = ErrMaxRetries
    /\ req.ci = 1
    /\ Contacted("m1")
    /\ ~Contacted("m2")

\* The account is rate-limited with more than MAX_WAIT_BEFORE_ERROR_MS left at
\* time t.
LimitedBeyondCeiling(account, t) ==
    /\ account.is_rate_limited
    /\ account.rate_limit_reset_time # NULL
    /\ account.rate_limit_reset_time - t > MAX_WAIT_BEFORE_ERROR_MS

\* C32: a request ends with 'No accounts available for this user' only when
\* every account of the user is invalid or rate-limited with more than
\* MAX_WAIT_BEFORE_ERROR_MS left; an account that is not invalid and is free
\* within the ceiling is waited for.
C32_NoAccountOnlyBeyondCeiling ==
    (req.pc = "done" /\ req.error = ErrNoAccounts) =>
        \A i \in DOMAIN accounts :
            accounts[i].is_invalid \/ LimitedBeyondCeiling(accounts[i], now)

\* C39: one call of sendMessageStream yields at most one message_start to its
\* consumer, also when the body of an upstream stream cannot be read to its
\* end after events were yielded and the next endpoint or account is tried. A
\* request for a model that is not an alias is one call of sendMessageStream.
C39_OneMessageStartPerCall ==
    (req.stream /\ Len(req.candidates) = 1) => req.starts <= 1

\* The retry loop is at an await of attempt number req.attempt.
InAttempt == req.pc \in {"sleepSticky", "sleepAll", "token", "fetch"}

\* The attempts of a call are bounded by max(MAX_RETRIES, accounts + 1), and
\* the endpoint asked is one of the list.
AttemptsBounded ==
    /\ req.pc # "idle" => req.maxAttempts = Max(MAX_RETRIES, Len(accounts) + 1)
    /\ req.attempt <= req.maxAttempts
    /\ InAttempt => req.attempt < req.maxAttempts
    /\ req.endpoint \in 1..NumEndpoints

\* Within a call the attempt number never goes back, it goes up whenever the
\* loop comes back to its head, and within an attempt the endpoints are asked
\* one after the other in the order of the list.
AttemptsAdvance ==
    (req.pc # "idle" /\ req'.ci = req.ci /\ req'.pc # "done")
    => /\ req'.attempt >= req.attempt
       /\ req'.pc = "attempt" => req'.attempt = req.attempt + 1
       /\ (req.pc = "fetch" /\ req'.pc = "fetch") =>
            /\ req'.attempt = req.attempt
            /\ req'.endpoint = req.endpoint + 1
       /\ req'.pc = "fetch" => req.pc \in {"token", "fetch"}
       /\ (req.pc = "token" /\ req'.pc = "fetch") => req'.endpoint = 1

\* C40: every call of sendMessage or sendMessageStream comes to an end when
\* every upstream call, token refresh and sleep returns: the request is
\* answered or fails, after at most max(MAX_RETRIES, accounts + 1) attempts per
\* call, each attempt asking each endpoint at most once.
C40_EveryCallTerminates ==
    /\ []AttemptsBounded
    /\ [][AttemptsAdvance]_vars
    /\ (req.pc # "idle") ~> (req.pc = "done")

\* C40 witness: the loop used up all its attempts, every one of them having
\* asked every endpoint, and the call ended with 'Max retries exceeded'.
C40_AllAttemptsUsed ==
    /\ req.pc = "done"
    /\ req.error = ErrMaxRetries
    /\ req.attempt = req.maxAttempts
    /\ req.statuses = {}
    /\ req.unauth # 0

(***************************************************************************)
(* Properties of the request converter                                     *)
(***************************************************************************)
\* C3: the contents convertAnthropicToGoogle produces hold no thought part whose
\* signature is missing or shorter than MIN_SIGNATURE_LENGTH (50).
C3_NoThoughtWithoutSignature ==
    conv.phase = "converted" =>
        \A i \in DOMAIN conv.contents : \A k \in DOMAIN conv.contents[i].parts :
            LET part == conv.contents[i].parts[k]
            IN  part.thought = TRUE =>
                    /\ part.thoughtSignature # NoSig
                    /\ part.thoughtSignature.len >= 50

\* C3 witness: a request for a non-Claude model (no final filter) whose user
\* message (no assistant pipeline) holds a thinking block without signature, one
\* with a short signature and one with a valid signature has been converted,
\* and the message came out with a thought part.
C3_UnsignedBlocksWereConverted ==
    /\ conv.phase = "converted"
    /\ ~conv.isClaudeModel
    /\ \E i \in DOMAIN conv.messages :
        LET content == conv.messages[i].content
        IN  /\ conv.messages[i].role = "user"
            /\ \E k \in DOMAIN content :
                    content[k].type = "thinking" /\ content[k].signature = NoSig
            /\ \E k \in DOMAIN content :
                    /\ content[k].type = "thinking"
                    /\ content[k].signature # NoSig
                    /\ content[k].signature.len < 50
            /\ \E k \in DOMAIN conv.contents[i].parts :
                    conv.contents[i].parts[k].thought = TRUE

\* The thinking blocks of a content array that carry a signature of at least
\* 50 characters, as <<text, signature>>, in order.
RECURSIVE SignedThinkingOf(_)
SignedThinkingOf(content) ==
    IF content = <<>> THEN <<>>
    ELSE LET block == Head(content)
         IN  (IF /\ block.type = "thinking"
                 /\ block.signature # NoSig
                 /\ block.signature.len >= 50
              THEN <<<<block.thinking, block.signature>>>>
              ELSE <<>>) \o SignedThinkingOf(Tail(content))

\* The thought parts of a parts array, as <<text, signature>>, in order.
RECURSIVE ThoughtsOf(_)
ThoughtsOf(parts) ==
    IF parts = <<>> THEN <<>>
    ELSE (IF Head(parts).thought = TRUE
          THEN <<<<Head(parts).text, Head(parts).thoughtSignature>>>>
          ELSE <<>>) \o ThoughtsOf(Tail(parts))

\* C4: every thinking block of an assistant message that carries a signature
\* of at least 50 characters comes out as a thought part with the same text and
\* signature: the thought parts of the message are exactly these blocks, in
\* their order.
C4_SignedThinkingPreserved ==
    conv.phase = "converted" =>
        \A i \in DOMAIN conv.messages :
            conv.messages[i].role = "assistant" =>
                ThoughtsOf(conv.contents[i].parts)
                    = SignedThinkingOf(conv.messages[i].content)

\* C4 witness: a converted request for a Claude model with the assistant message
\* [text, signed thinking, unsigned thinking]: the signed block is at the end
\* once the unsigned one is dropped, moves to the front in the reorder, and
\* passes the final filter.
C4_SignedBlockThroughEveryStage ==
    /\ conv.phase = "converted"
    /\ conv.isClaudeModel
    /\ \E i \in DOMAIN conv.messages :
        LET content == conv.messages[i].content
        IN  /\ conv.messages[i].role = "assistant"
            /\ Len(content) = 3
            /\ content[1].type = "text" /\ content[1].text = "hi"
            /\ content[2].type = "thinking" /\ content[2].signature.len >= 50
            /\ content[3].type = "thinking" /\ content[3].signature = NoSig
            /\ Len(conv.contents[i].parts) = 2
            /\ conv.contents[i].parts[1].thought = TRUE

(***************************************************************************)
(* Properties of the streaming reassembler and the response converter      *)
(***************************************************************************)
BlockEvents == {"content_block_start", "content_block_delta", "content_block_stop"}

\* How many events of the type come before position k.
CountBefore(events, k, type) ==
    Cardinality({j \in 1..(k - 1) : events[j].type = type})

\* message_start, then blocks 0, 1, 2, ... one after the other, each a start,
\* deltas and a stop with the block's index, then message_delta, message_stop.
WellFormedStream(events) ==
    LET n == Len(events)
    IN  /\ n >= 3
        /\ events[1].type = "message_start"
        /\ events[n - 1].type = "message_delta"
        /\ events[n].type = "message_stop"
        /\ \A k \in 2..(n - 2) : events[k].type \in BlockEvents
        /\ \A k \in 2..(n - 2) :
            LET started == CountBefore(events, k, "content_block_start")
                stopped == CountBefore(events, k, "content_block_stop")
            IN  IF events[k].type = "content_block_start"
                THEN started = stopped /\ events[k].index = started
                ELSE started = stopped + 1 /\ events[k].index = stopped
        /\ CountBefore(events, n - 1, "content_block_start")
                = CountBefore(events, n - 1, "content_block_stop")

\* C5: the events of a completed streamSSEResponse are exactly one
\* message_start, then content blocks with indices 0, 1, 2, ... in order, each
\* a content_block_start, deltas of the same index and a content_block_stop,
\* never two open at once, then exactly one message_delta and exactly one
\* message_stop.
C5_StreamIsWellFormed ==
    sse.phase = "done" => WellFormedStream(sse.events)

\* C5 witness: a completed stream of three blocks, the first a thinking block
\* closed with its signature_delta.
C5_ThreeBlocksStreamed ==
    /\ sse.phase = "done"
    /\ \E k \in DOMAIN sse.events :
            sse.events[k].type = "content_block_stop" /\ sse.events[k].index = 2
    /\ \E k \in DOMAIN sse.events :
            sse.events[k].kind = "signature_delta" /\ sse.events[k].index = 0

\* C6: a completed stream holds at least one content_block_start.
C6_StreamHasABlock ==
    sse.phase = "done" =>
        \E k \in DOMAIN sse.events : sse.events[k].type = "content_block_start"

\* C7: the stop_reason of message_delta is 'tool_use' whenever a functionCall
\* part was received, whatever the finishReason.
C7_ToolUseStopReason ==
    (sse.phase = "done" /\ sse.calls) =>
        \A k \in DOMAIN sse.events :
            sse.events[k].type = "message_delta" => sse.events[k].data = "tool_use"

\* C8: convertGoogleToAnthropic returns the stop_reason 'tool_use' whenever the
\* response holds a functionCall part or its finishReason is TOOL_USE, for every
\* finishReason.
C8_ToolUseStopReason ==
    (/\ resp.phase = "converted"
     /\ \/ \E k \in DOMAIN resp.parts : resp.parts[k].functionCall # UNDEFINED
        \/ resp.finishReason = "TOOL_USE")
    => resp.out.stop_reason = "tool_use"

\* C23: when the feed ends and no frame carried a part, the events are
\* message_start, content_block_start (index 0, text), one text_delta with
\* '[No response received from API]', content_block_stop (index 0),
\* message_delta and message_stop, in that order and nothing else.
C23_NoResponseFallback ==
    (sse.phase = "done" /\ sse.parts = 0) =>
        /\ Len(sse.events) = 6
        /\ sse.events[1].type = "message_start"
        /\ sse.events[2] = Event("content_block_start", 0, "text", "")
        /\ sse.events[3] = Event("content_block_delta", 0, "text_delta",
                                 "[No response received from API]")
        /\ sse.events[4] = Event("content_block_stop", 0, "", "")
        /\ sse.events[5].type = "message_delta"
        /\ sse.events[6].type = "message_stop"

\* C23 witness: the feed ended after two frames without a part.
C23_TwoEmptyFrames ==
    /\ sse.phase = "done"
    /\ sse.parts = 0
    /\ sse.frames = 2
    /\ Len(sse.events) = 6
    /\ sse.events[3].kind = "text_delta"

\* The signature_delta events of the stream, by position.
SignatureDeltas == {k \in DOMAIN sse.events : sse.events[k].kind = "signature_delta"}

\* The length of the signature a signature_delta carries.
SignatureLength(id) == (CHOOSE sig \in Signatures : sig.id = id).len

\* The block with the index was opened as a thinking block.
OpenedAsThinking(index) ==
    \E j \in DOMAIN sse.events :
        /\ sse.events[j].type = "content_block_start"
        /\ sse.events[j].index = index
        /\ sse.events[j].kind = "thinking"

\* C33: at most one signature_delta is emitted per block, every one of them
\* has the index of a thinking block and a signature of MIN_SIGNATURE_LENGTH
\* characters or more, and the event after it is the content_block_stop of that
\* block.
C33_SignatureDeltaOncePerThinkingBlock ==
    /\ \A k \in SignatureDeltas :
        /\ OpenedAsThinking(sse.events[k].index)
        /\ \A j \in DOMAIN sse.events :
                (sse.events[j].type = "content_block_start"
                    /\ sse.events[j].index = sse.events[k].index)
                => sse.events[j].kind = "thinking" /\ j < k
        /\ SignatureLength(sse.events[k].data) >= MIN_SIGNATURE_LENGTH
        /\ k < Len(sse.events) =>
                /\ sse.events[k + 1].type = "content_block_stop"
                /\ sse.events[k + 1].index = sse.events[k].index
        /\ sse.phase = "done" => k < Len(sse.events)
    /\ \A k, j \in SignatureDeltas : sse.events[k].index = sse.events[j].index => k = j

\* C33 witness: a stream with two thinking blocks and a text block between
\* them, a signature_delta for each thinking block, one flushed at the
\* transition to text and one at the end of the stream.
C33_TwoSignedThinkingBlocks ==
    /\ sse.phase = "done"
    /\ \E k, j \in SignatureDeltas :
        /\ sse.events[k].index = 0
        /\ sse.events[j].index = 2
    /\ \E k \in DOMAIN sse.events :
        sse.events[k].type = "content_block_start" /\ sse.events[k].kind = "text"

\* The last signature of MIN_SIGNATURE_LENGTH characters or more that a thought
\* part of the block carried, NoSig without one.
LastValidSignature(index) ==
    LET valid == {k \in DOMAIN sse.received :
                    /\ sse.received[k].index = index
                    /\ sse.received[k].signature # NoSig
                    /\ sse.received[k].signature.len >= MIN_SIGNATURE_LENGTH}
    IN  IF valid = {} THEN NoSig
        ELSE sse.received[CHOOSE k \in valid : \A j \in valid : j <= k].signature

\* C34: when a thinking block is closed, by a text part, a functionCall part
\* or the end of the stream, and a thought part of the block carried a
\* signature of 50 characters or more, a signature_delta with the last such
\* signature was emitted for the block before its content_block_stop.
C34_LastSignatureEmittedBeforeStop ==
    \A k \in DOMAIN sse.events :
        (/\ sse.events[k].type = "content_block_stop"
         /\ OpenedAsThinking(sse.events[k].index)
         /\ LastValidSignature(sse.events[k].index) # NoSig)
        => \E j \in SignatureDeltas :
                /\ j < k
                /\ sse.events[j].index = sse.events[k].index
                /\ sse.events[j].data = LastValidSignature(sse.events[k].index).id

\* C34 witness: a thinking block whose thought parts carried two valid
\* signatures, the second one emitted, closed by a functionCall part.
C34_SecondSignatureBeforeToolUse ==
    /\ Len(sse.received) >= 2
    /\ sse.received[1] = [index |-> 0, signature |-> [id |-> "s2", len |-> 50]]
    /\ sse.received[2] = [index |-> 0, signature |-> [id |-> "s3", len |-> 64]]
    /\ \E k \in DOMAIN sse.events :
        /\ sse.events[k].type = "content_block_start"
        /\ sse.events[k].kind = "tool_use"
        /\ sse.events[k].index = 1
    /\ \E j \in SignatureDeltas : sse.events[j].data = "s3"

(***************************************************************************)
(* Properties of the streaming response                                    *)
(***************************************************************************)
\* C17: when an error is raised while a streaming response is written, after
\* the headers were sent, exactly one 'error' event is written, then the
\* response is ended; no event is written after the error event.
C17_OneErrorEventThenEnd ==
    /\ \A k \in DOMAIN http.written :
            http.written[k] = "error" => k = Len(http.written)
    /\ (http.pc = "done" /\ http.error # NoError /\ http.statusCode = 200) =>
            /\ http.written # <<>>
            /\ http.written[Len(http.written)] = "error"
            /\ http.ended

\* C17 witness: sendStreamResponse had written two events when the generator
\* threw; the error event came third and the response is ended.
C17_ErrorAfterTwoEvents ==
    /\ http.pc = "done"
    /\ http.route = "AnthropicInput"
    /\ http.error = ErrNetwork
    /\ Len(http.written) = 3
    /\ http.written[1] = "message_start"
    /\ http.written[3] = "error"
    /\ http.ended

\* C18: a streaming request that fails before any stream event was written is
\* answered with a structured error response with a status code other than
\* 200, not with an error event in a 200 stream.
C18_ErrorBeforeFirstEventIsStructured ==
    (/\ http.pc = "done"
     /\ http.error # NoError
     /\ \A k \in DOMAIN http.written : http.written[k] = "error")
    => /\ http.body = "error"
       /\ http.statusCode # 200
       /\ http.written = <<>>

\* C28: after the client has disconnected during a streaming response, the
\* proxy reads nothing more of the upstream stream of the request.
C28_NoReadAfterDisconnect ==
    http.clientGone => http.readAfterClose = 0

(***************************************************************************)
(* Properties of the assistant-message pipeline                            *)
(***************************************************************************)
\* The group of a block: 1 thinking and redacted_thinking, 2 text and the
\* other types, 3 tool_use.
GroupOf(block) ==
    IF IsThinkingType(block) THEN 1
    ELSE IF block.type = "tool_use" THEN 3
    ELSE 2
InGroup(blocks, g) == SelectSeq(blocks, LAMBDA b : GroupOf(b) = g)
\* A text block without text, or with white space only.
EmptyText(block) ==
    block.type = "text" /\ (block.text = UNDEFINED \/ Trim(block.text) = "")

\* C19: for a content array of two or more blocks, reorderAssistantContent
\* returns all the thinking and redacted_thinking blocks first, then the text
\* and other blocks, then all the tool_use blocks, and the blocks of each group
\* keep the relative order they had in the input.
C19_ReorderGroupsInOrder ==
    (pipe.phase = "done" /\ Len(pipe.content) >= 2) =>
        /\ \A i, j \in DOMAIN pipe.reordered :
                i < j => GroupOf(pipe.reordered[i]) <= GroupOf(pipe.reordered[j])
        /\ InGroup(pipe.reordered, 1) = Sanitized(InGroup(pipe.content, 1))
        /\ InGroup(pipe.reordered, 2) =
                SelectSeq(InGroup(pipe.content, 2), LAMBDA b : ~EmptyText(b))
        /\ InGroup(pipe.reordered, 3) = InGroup(pipe.content, 3)

\* C19 witness: tool_use, text, thinking comes back as thinking, text, tool_use.
C19_ReversedInput ==
    /\ pipe.phase = "done"
    /\ Len(pipe.content) = 3
    /\ pipe.content[1].type = "tool_use"
    /\ pipe.content[2] = TextBlock("hi")
    /\ pipe.content[3].type = "thinking"
    /\ Len(pipe.reordered) = 3
    /\ pipe.reordered[1].type = "thinking"
    /\ pipe.reordered[2] = TextBlock("hi")
    /\ pipe.reordered[3].type = "tool_use"

\* C20: the pipeline of an assistant message (restoreThinkingSignatures, then
\* removeTrailingThinkingBlocks, then reorderAssistantContent) is idempotent on
\* content arrays of text, empty text, tool_use, signed and unsigned thinking
\* and redacted_thinking blocks: run on its own result it changes nothing.
C20_PipelineIdempotent ==
    (/\ pipe.phase = "done"
     /\ \A k \in DOMAIN pipe.content : pipe.content[k] # ImageBlock)
    => pipe.twice = pipe.once

\* A thinking or redacted_thinking block without a signature of
\* MIN_SIGNATURE_LENGTH characters.
UnsignedThinking(block) ==
    /\ block.type \in {"thinking", "redacted_thinking"}
    /\ (block.signature = NoSig \/ block.signature.len < MIN_SIGNATURE_LENGTH)

\* C21: removeTrailingThinkingBlocks returns the input less its maximal
\* trailing run of unsigned thinking blocks: the result is a prefix of the
\* input, every block removed is an unsigned thinking block, and the result
\* does not end in one; an unsigned thinking block that is not trailing stays.
C21_TrailingUnsignedRunRemoved ==
    pipe.phase = "done" =>
        /\ Len(pipe.trimmed) <= Len(pipe.content)
        /\ pipe.trimmed = SubSeq(pipe.content, 1, Len(pipe.trimmed))
        /\ \A k \in (Len(pipe.trimmed) + 1)..Len(pipe.content) :
                UnsignedThinking(pipe.content[k])
        /\ (pipe.trimmed # <<>> => ~UnsignedThinking(pipe.trimmed[Len(pipe.trimmed)]))
        /\ (pipe.content = <<RedactedThinkingBlock, TextBlock("hi")>>
                => pipe.trimmed = pipe.content)
        /\ (pipe.content = <<TextBlock("hi"), RedactedThinkingBlock>>
                => pipe.trimmed = <<TextBlock("hi")>>)

\* C21 witness: of [unsigned thinking, text, unsigned thinking] the trailing
\* block is removed and the leading one is kept.
C21_LeadingKeptTrailingRemoved ==
    /\ pipe.phase = "done"
    /\ Len(pipe.content) = 3
    /\ UnsignedThinking(pipe.content[1])
    /\ pipe.content[1].type = "thinking"
    /\ pipe.content[2] = TextBlock("hi")
    /\ UnsignedThinking(pipe.content[3])
    /\ pipe.trimmed = SubSeq(pipe.content, 1, 2)

(***************************************************************************)
(* Properties of the tool-schema sanitizer                                 *)
(***************************************************************************)
\* A schema with a type and, when the type is 'object', a non-empty
\* properties map, whose schemas under properties and items are such schemas
\* too. The schemas under items are the object that is its value or the
\* elements of the array that is its value; a value of items that is null or
\* not an object holds no schema.
RECURSIVE WellTyped(_)
WellTyped(value) ==
    /\ value.kind = "schema"
    /\ value.type # ""
    /\ (value.type = "object" =>
            value.properties.kind = "map" /\ Len(value.properties.entries) > 0)
    /\ (value.properties.kind = "map" =>
            \A i \in DOMAIN value.properties.entries :
                WellTyped(value.properties.entries[i]))
    /\ CASE value.items.kind = "absent" -> TRUE
         [] value.items.kind = "array" ->
                \A i \in DOMAIN value.items.elems : WellTyped(value.items.elems[i])
         [] value.items.kind = "schema" -> WellTyped(value.items)
         [] OTHER -> TRUE

Orderings(n) == {p \in [1..n -> 1..n] : \A a, b \in 1..n : a # b => p[a] # p[b]}

\* C24: resolve returns a list that is not empty: the requested name alone
\* when there is no group of that name or the group has no rows; otherwise the
\* model names of the rows of the group, each row once, for 'priority' in
\* ascending order of order_index and for 'random' in any order. The rows
\* stored are as they were.
C24_ResolveReturnsTheGroup ==
    agg.phase = "done" =>
        /\ agg.candidates # <<>>
        /\ agg.rows = agg.read
        /\ IF ~agg.exists \/ agg.rows = <<>>
           THEN agg.candidates = <<"alias">>
           ELSE /\ Len(agg.candidates) = Len(agg.rows)
                /\ \E p \in Orderings(Len(agg.rows)) :
                    /\ \A k \in DOMAIN agg.rows :
                            agg.candidates[k] = agg.rows[p[k]].model_name
                    /\ agg.strategy = "priority" =>
                            \A k \in 1..(Len(agg.rows) - 1) :
                                agg.rows[p[k]].order_index
                                    <= agg.rows[p[k + 1]].order_index

\* C24 witness: a 'random' group whose rows m1 (order 0), m2 (order 1) and m1
\* (order 2) came back as m2, m1, m1.
C24_ShuffledGroup ==
    /\ agg.phase = "done"
    /\ agg.strategy = "random"
    /\ agg.rows = <<GroupItem("m1", 0), GroupItem("m2", 1), GroupItem("m1", 2)>>
    /\ agg.candidates = <<"m2", "m1", "m1">>

(***************************************************************************)
(* Properties of the round trip                                            *)
(***************************************************************************)
\* The message is one or more blocks of the type.
MessageOf(type) ==
    /\ trip.content # <<>>
    /\ \A k \in DOMAIN trip.content : trip.content[k].type = type
\* The blocks that came back are the tool_use blocks sent: same name and
\* input and, for a Claude model and a block with an id, the same id.
SameToolUses ==
    /\ Len(trip.back) = Len(trip.content)
    /\ \A k \in DOMAIN trip.content :
        /\ trip.back[k].type = "tool_use"
        /\ trip.back[k].name = trip.content[k].name
        /\ trip.back[k].input = trip.content[k].input
        /\ (trip.isClaudeModel /\ trip.content[k].id # UNDEFINED)
                => trip.back[k].id = trip.content[k].id

\* C25: a message of non-empty text blocks converted to parts and back is the
\* same text blocks in the same order, and a message of tool_use blocks
\* converted to parts and back is tool_use blocks of the same name and input
\* (and, for a Claude model, the same id).
C25_RoundTrip ==
    trip.phase = "done" =>
        /\ (MessageOf("text") /\ \A k \in DOMAIN trip.content : trip.content[k].text # "")
                => trip.back = trip.content
        /\ MessageOf("tool_use") => SameToolUses

\* C25, with the text blocks those whose text is more than white space.
C25_RoundTripOfMeaningfulText ==
    trip.phase = "done" =>
        /\ (MessageOf("text") /\ \A k \in DOMAIN trip.content :
                                    Trim(trip.content[k].text) # "")
                => trip.back = trip.content
        /\ MessageOf("tool_use") => SameToolUses

\* C25 witness: 'hi', 'ho', 'hi' came back as sent.
C25_ThreeTextsAndBack ==
    /\ trip.phase = "done"
    /\ MessageOf("text")
    /\ Len(trip.content) = 3
    /\ trip.content[1].text = "hi"
    /\ trip.content[2].text = "ho"
    /\ Len(trip.parts) = 3
    /\ trip.back = trip.content

(***************************************************************************)
(* Properties of the session id                                            *)
(***************************************************************************)
\* messages[i] is the first user message that has text.
FirstWithText(messages, i) ==
    /\ i \in DOMAIN messages
    /\ messages[i].role = "user"
    /\ ContentText(messages[i].content) # ""
    /\ \A k \in 1..(i - 1) :
            messages[k].role = "user" => ContentText(messages[k].content) = ""

\* C26: two requests whose first user message with text has the same text are
\* given the same sessionId, whatever their other messages and their models.
C26_SessionIdOfFirstUserText ==
    session.phase = "done" =>
        \A i \in DOMAIN session.first, j \in DOMAIN session.second :
            (/\ FirstWithText(session.first, i)
             /\ FirstWithText(session.second, j)
             /\ ContentText(session.first[i].content)
                    = ContentText(session.second[j].content))
            => session.ids[1] = session.ids[2]

\* C26 witness: the second request is the first with a turn appended and
\* another model, and has the session id of the first.
C26_TurnAppended ==
    /\ session.phase = "done"
    /\ session.first = <<Turn("user", StringContent("a"))>>
    /\ session.second = <<Turn("user", StringContent("a")), Turn("user", StringContent("b"))>>
    /\ session.models = <<"m1", "m2">>
    /\ session.ids[1] = session.ids[2]
    /\ session.ids[1] = Sha256("a")

(***************************************************************************)
(* Properties of the generation config                                     *)
(***************************************************************************)
\* C27: for a Claude thinking model, the generationConfig has
\* maxOutputTokens > thinkingConfig.thinking_budget, whatever max_tokens and
\* thinking.budget_tokens the request gives.
C27_MaxOutputTokensAboveBudget ==
    (config.phase = "done" /\ config.isClaudeThinkingModel) =>
        config.generationConfig.maxOutputTokens
            > config.generationConfig.thinking_budget


(***************************************************************************)
(* Properties of the token cache                                           *)
(***************************************************************************)
\* The last call was for an oauth account whose cached token was missing or
\* older than TOKEN_REFRESH_INTERVAL_MS, and its refresh failed.
RefreshFailedInLastCall ==
    /\ tok.calls > 0
    /\ tok.last.account.source = "oauth"
    /\ tok.last.account.refresh_token
    /\ ~CacheFresh(tok.last.cached, tok.last.at)
    /\ tok.last.outcome \in RefreshMessages

\* C31: when the refresh fails in getTokenForAccount for an oauth account with a
\* missing or stale cached token, the account is marked invalid with the failure
\* message, an AUTH_INVALID error is thrown, the cache entry is left as it was,
\* and the call made one refresh attempt.
C31_RefreshFailureMarksInvalid ==
    RefreshFailedInLastCall =>
        /\ tok.account.is_invalid
        /\ tok.account.invalid_reason = tok.last.outcome
        /\ tok.last.result = "threw"
        /\ tok.last.error = "AUTH_INVALID: " \o tok.last.outcome
        /\ tok.cache = tok.last.cached
        /\ tok.last.refreshes = 1

\* C31 witness: the refresh failed for a valid account whose cached token had
\* grown stale.
C31_StaleTokenRefreshFailed ==
    /\ RefreshFailedInLastCall
    /\ tok.last.cached.set
    /\ ~tok.last.account.is_invalid
    /\ tok.cache.set


(***************************************************************************)
(* Properties of the read loop                                             *)
(***************************************************************************)
\* The locals after the lines were handled one by one, each once, in order.
LineByLine(lines) ==
    OnLines(IdleRd.loc, [k \in DOMAIN lines |-> UnitsOf(lines[k])])

\* The lines of the text whose newline is among the units read so far.
LinesRead ==
    LET text == TextOf(rd.lines, rd.terminated)
        newlines == Cardinality({k \in 1..rd.read : text[k] = NL})
    IN  SubSeq(rd.lines, 1, newlines)

RECURSIVE WithoutBadLines(_)
WithoutBadLines(lines) ==
    IF lines = <<>> THEN <<>>
    ELSE (IF Head(lines).kind = "bad" THEN <<>> ELSE <<Head(lines)>>)
            \o WithoutBadLines(Tail(lines))

\* C35: a data line whose payload is not JSON leaves no trace: the events and
\* the locals of the reassembler (message started, open block, block index,
\* pending signature, stop reason, token counts) are, at every point of the
\* stream, those of the same text without its malformed lines.
C35_MalformedLineLeavesNoTrace ==
    /\ rd.phase = "reading" => rd.loc = LineByLine(WithoutBadLines(LinesRead))
    /\ rd.phase = "done" =>
            LET ref == LineByLine(WithoutBadLines(LinesRead))
            IN  rd.loc = [st |-> OnEnd(ref.st), tokens |-> ref.tokens]

\* C35 witness: a malformed line came while a signed thinking block was open,
\* and the frames after it closed that block and opened a text block.
C35_MalformedLineInsideThinking ==
    /\ rd.phase = "done"
    /\ Len(rd.lines) = 3
    /\ rd.lines[1].id = "think"
    /\ rd.lines[2].kind = "bad"
    /\ rd.lines[3].id = "text"
    /\ rd.terminated
    /\ \E k \in DOMAIN rd.loc.st.events : rd.loc.st.events[k].kind = "signature_delta"
    /\ rd.loc.tokens.outputTokens = 5

\* C36: the events and locals depend only on the text and not on the chunks:
\* at every point of the stream they are those of handling, once and in order,
\* the lines whose newline has arrived.
C36_ChunkBoundariesDoNotMatter ==
    /\ rd.phase = "reading" => rd.loc = LineByLine(LinesRead)
    /\ rd.phase = "done" =>
            LET ref == LineByLine(LinesRead)
            IN  rd.loc = [st |-> OnEnd(ref.st), tokens |-> ref.tokens]

\* C36 witness: a text of three frames came in chunks one of which ended inside
\* a line, and every frame was handled.
C36_FrameSplitAcrossChunks ==
    /\ rd.phase = "done"
    /\ rd.inside
    /\ Len(rd.lines) = 3
    /\ \A k \in 1..3 : rd.lines[k].kind = "frame"
    /\ rd.lines[1].id = "think" /\ rd.lines[2].id = "text" /\ rd.lines[3].id = "call"
    /\ rd.terminated
    /\ rd.loc.st.blockIndex = 2


(***************************************************************************)
(* Properties of the conversion on the heap                                *)
(***************************************************************************)
\* The text of the last part of the systemInstruction of the googleRequest.
LastSystemText ==
    LET parts == mem.heap[mem.googleRequest.systemInstruction].elems
    IN  mem.heap[parts[Len(parts)]].value.text

\* C37: convertAnthropicToGoogle leaves the request as it was: every object
\* and array that existed before the call (the messages array, the message,
\* its content array and blocks, the system array and its blocks, the tools,
\* the tool and its schema) is the same after it.
C37_RequestUnchanged ==
    mem.phase = "done" =>
        /\ Len(mem.heap) >= Len(mem.before)
        /\ \A ref \in DOMAIN mem.before : mem.heap[ref] = mem.before[ref]

\* C37 witness: a request with a system array ending in a text block, for a
\* Claude thinking model with a tool, so that the hint was appended to the last
\* system part, and an assistant message whose blocks were filtered and
\* reordered.
C37_HintFilteredAndReordered ==
    /\ mem.phase = "done"
    /\ mem.request.system.kind = "array"
    /\ mem.googleRequest.systemInstruction # 0
    /\ LastSystemText = "sys" \o HINT
    /\ LET msg == mem.before[mem.before[1].elems[1]]
           blocks == mem.before[msg.elems[1]].elems
           parts == mem.heap[mem.heap[mem.googleRequest.contents[1]].elems[1]].elems
       IN  /\ msg.value.type = "assistant"
           /\ Len(blocks) = 3
           /\ mem.before[blocks[1]].value.type = "tool_use"
           /\ mem.before[blocks[2]].value = ThinkingBlock("t", NoSig, FALSE)
           /\ mem.before[blocks[3]].value.type = "text"
           /\ MeaningfulText(mem.before[blocks[3]].value)
           /\ Len(parts) = 2
           /\ mem.heap[parts[1]].value.functionCall = UNDEFINED
           /\ mem.heap[parts[2]].value.functionCall # UNDEFINED


(***************************************************************************)
(* Properties of the concurrent requests                                   *)
(***************************************************************************)
\* C38: under every interleaving of the requests' updates every row holds, for
\* each of its fields, what the last update of that field wrote, the two
\* rate-limit fields together, and a row with is_rate_limited set has a
\* rate_limit_reset_time.
C38_LastWriterWins ==
    \A i \in DOMAIN race.lastWrite :
        /\ Written(accounts[i]) = race.lastWrite[i]
        /\ accounts[i].is_rate_limited => accounts[i].rate_limit_reset_time # NULL

\* C38 witness: two requests held the same account at once, one of them marked
\* it rate-limited while the other was waiting for upstream, and the other then
\* marked it again with another reset time, which is the one the row holds.
C38_TwoRequestsMarkedOneAccount ==
    /\ race.overlap
    /\ \A p \in Requests : race.pc[p] = "idle" /\ race.rounds[p] = 1
    /\ race.account[1] = race.account[2]
    /\ race.account[1] # 0
    /\ accounts[race.account[1]].is_rate_limited
    /\ accounts[race.account[1]].rate_limit_reset_time = now + 150000
    /\ race.ticks = 0

====
